---------------------------- MODULE Spec2Model ----------------------------
(***************************************************************************)
(* Verification model of the Spardex credit-check API decision engine:     *)
(* tier aggregation, score-delta calculation, the rule registry, the       *)
(* enrichment orchestration and the bureau token cache.                    *)
(***************************************************************************)
EXTENDS Integers, Sequences, FiniteSets, TLC

(***************************************************************************)
(* Tier enum (types/tiers.ts): the numeric value is the ordinal.           *)
(***************************************************************************)
REJECTED == 0
MANUAL_REVIEW == 1
POOR == 2
FAIR == 3
GOOD == 4
EXCELLENT == 5

Tier == {REJECTED, MANUAL_REVIEW, POOR, FAIR, GOOD, EXCELLENT}

\* const tiers = [Tier.EXCELLENT, Tier.GOOD, Tier.FAIR, Tier.POOR]
FunnelTiers == <<EXCELLENT, GOOD, FAIR, POOR>>

\* const tiers = [Tier.GOOD, Tier.FAIR, Tier.POOR]
SecondHandTiers == <<GOOD, FAIR, POOR>>

(***************************************************************************)
(* Bounds of the model.                                                    *)
(***************************************************************************)
\* longest rule-result list handed to aggregateResults on its own
MaxResults == 4

\* how many fields of a request and of its lookups differ from the baseline
MaxVaried == 2

\* requests of one process that call authenticate()
NumCallers == 2

\* authentication requests the bureau receives in one run
MaxAuthRequests == 3

\* times the clock is read at a later instant in one run
MaxTicks == 3

\* how far below 0 and above 100 the base scores of the model reach
ScoreMargin == 3

\* longest list of NACE codes of a company
MaxNaceCodes == 2

\* longest list of NACE codes handed to getNaceOutcomeForTier on its own
MaxListed == 3

\* oldest company age, in months, handed to findAgeBracket on its own
MaxAgeMonths == 72

VARIABLES
  aggPc,        \* "call" before aggregateResults has run, "done" after
  aggIn,        \* RuleResult[] handed to aggregateResults
  aggOut        \* its return value

aggVars == <<aggPc, aggIn, aggOut>>

VARIABLES
  pc,               \* where the POST /credit-check handler stands
  request,          \* the validated request body
  world,            \* what each external lookup of this request will settle with
  creditsafeResult, \* settlement of getCompanyReportByVat inside Promise.allSettled
  viesResult,       \* settlement of validateVatNumber inside Promise.allSettled
  enrichment,       \* the locals of enrichData, then its EnrichmentResult
  ruleContext,      \* <<RuleContext>> once built
  response,         \* <<CreditCheckResponse.result>> once returned
  kycRequest        \* <<companyName>> once searchBusinessWithHits was called with it

VARIABLES
  cachedToken,      \* module-level token cache: <<>> for null, else <<token>>
  tokenExpiresAt,   \* module-level expiry instant of the cached token
  now,              \* Date.now(), in minutes
  ticks,            \* how often the clock has advanced
  authCall,         \* per caller: where its authenticate() call stands, and its outcome
  authRequests      \* POST /authenticate requests sent so far

authVars == <<cachedToken, tokenExpiresAt, now, ticks, authCall, authRequests>>

VARIABLES
  scorePc,          \* "call" before calculateAdjustedScore has run, "done" after
  scoreIn,          \* the ScoreCalculationInput
  scoreOut,         \* the ScoreCalculationResult
  scoreTier         \* <<determineTierFromScore(base score)>> once computed

scoreVars == <<scorePc, scoreIn, scoreOut, scoreTier>>

VARIABLES
  lookupPc,         \* "call" before a table lookup has run, "done" after
  lookupIn,         \* which lookup is called, and its arguments
  lookupOut         \* what the lookup returned

lookupVars == <<lookupPc, lookupIn, lookupOut>>

VARIABLES
  viesPc,           \* where validateVatNumber stands: "call", "fetch", "delay", "returned", "processed"
  viesCountry,      \* country code of the VAT number it was called with
  viesAttempt,      \* the loop variable attempt
  viesRequests,     \* GET requests sent to the registry so far
  viesLast,         \* how the latest request ended
  viesSeen,         \* the kinds of ending the requests of this call have had
  viesDelay,        \* milliseconds of the delay in progress, <<>> when none
  viesReturn,       \* <<ViesResult>> once validateVatNumber has returned
  viesEnrichment    \* the locals of enrichData after it processed that result

viesVars == <<viesPc, viesCountry, viesAttempt, viesRequests, viesLast, viesSeen, viesDelay,
              viesReturn, viesEnrichment>>

reqVars == <<pc, request, world, creditsafeResult, viesResult, enrichment, ruleContext, response, kycRequest>>

(***************************************************************************)
(* types/tiers.ts and utils/tier.ts: the tier names of the API.            *)
(***************************************************************************)
tierToString(tier) ==
  CASE tier = REJECTED -> "rejected"
    [] tier = MANUAL_REVIEW -> "manual_review"
    [] tier = POOR -> "poor"
    [] tier = FAIR -> "fair"
    [] tier = GOOD -> "good"
    [] tier = EXCELLENT -> "excellent"

(***************************************************************************)
(* rules/engine: aggregateResults                                          *)
(***************************************************************************)
\* Array.prototype.find: index of the first element with the tier, 0 if none
FindTier(results, t) ==
  IF \E i \in 1..Len(results) : results[i].tier = t
  THEN CHOOSE i \in 1..Len(results) :
         /\ results[i].tier = t
         /\ \A j \in 1..(i-1) : results[j].tier # t
  ELSE 0

\* the for-loop that keeps the first strictly lower tier; acc = <<worstTier, worstRule>>
RECURSIVE WorstLoop(_, _, _)
WorstLoop(results, i, acc) ==
  IF i > Len(results) THEN acc
  ELSE IF results[i].tier < acc[1]
       THEN WorstLoop(results, i + 1, <<results[i].tier, i>>)
       ELSE WorstLoop(results, i + 1, acc)

\* mutation: the manual-review check runs before the rejection check
aggregateResults_manualFirst(results) ==
  LET manualReview == FindTier(results, MANUAL_REVIEW)
      rejection == FindTier(results, REJECTED)
      worst == WorstLoop(results, 1, <<EXCELLENT, 0>>)
  IN  IF manualReview # 0
      THEN [finalTier |-> MANUAL_REVIEW, triggeringRule |-> manualReview]
      ELSE IF rejection # 0
      THEN [finalTier |-> REJECTED, triggeringRule |-> rejection]
      ELSE IF Len(results) = 0
      THEN [finalTier |-> EXCELLENT, triggeringRule |-> 0]
      ELSE [finalTier |-> worst[1], triggeringRule |-> worst[2]]

\* mutation: the manual-review branch returns the tier of the branch above it
aggregateResults_copiedBranch(results) ==
  LET rejection == FindTier(results, REJECTED)
      manualReview == FindTier(results, MANUAL_REVIEW)
      worst == WorstLoop(results, 1, <<EXCELLENT, 0>>)
  IN  IF rejection # 0
      THEN [finalTier |-> REJECTED, triggeringRule |-> rejection]
      ELSE IF manualReview # 0
      THEN [finalTier |-> REJECTED, triggeringRule |-> manualReview]
      ELSE IF Len(results) = 0
      THEN [finalTier |-> EXCELLENT, triggeringRule |-> 0]
      ELSE [finalTier |-> worst[1], triggeringRule |-> worst[2]]

\* mutation: the worst-tier loop only looks at the first result
aggregateResults_firstOnly(results) ==
  LET rejection == FindTier(results, REJECTED)
      manualReview == FindTier(results, MANUAL_REVIEW)
      worst == WorstLoop(SubSeq(results, 1, 1), 1, <<EXCELLENT, 0>>)
  IN  IF rejection # 0
      THEN [finalTier |-> REJECTED, triggeringRule |-> rejection]
      ELSE IF manualReview # 0
      THEN [finalTier |-> MANUAL_REVIEW, triggeringRule |-> manualReview]
      ELSE IF Len(results) = 0
      THEN [finalTier |-> EXCELLENT, triggeringRule |-> 0]
      ELSE [finalTier |-> worst[1], triggeringRule |-> worst[2]]

\* triggeringRule is the index of the reported result, 0 for null
aggregateResults(results) ==
  LET rejection == FindTier(results, REJECTED)
      manualReview == FindTier(results, MANUAL_REVIEW)
      worst == WorstLoop(results, 1, <<EXCELLENT, 0>>)
  IN  IF rejection # 0
      THEN [finalTier |-> REJECTED, triggeringRule |-> rejection]
      ELSE IF manualReview # 0
      THEN [finalTier |-> MANUAL_REVIEW, triggeringRule |-> manualReview]
      ELSE IF Len(results) = 0
      THEN [finalTier |-> EXCELLENT, triggeringRule |-> 0]
      ELSE [finalTier |-> worst[1], triggeringRule |-> worst[2]]

(***************************************************************************)
(* Specification of aggregateResults on its own: every list of at most     *)
(* MaxResults rule results, then the call.                                 *)
(***************************************************************************)
RECURSIVE SeqsUpTo(_, _)
SeqsUpTo(S, n) ==
  IF n = 0 THEN {<<>>}
  ELSE LET shorter == SeqsUpTo(S, n - 1)
       IN  shorter \cup {Append(s, x) : s \in {q \in shorter : Len(q) = n - 1}, x \in S}

AggInputs ==
  {[i \in 1..Len(ts) |-> [ruleId |-> "rule", tier |-> ts[i]]] : ts \in SeqsUpTo(Tier, MaxResults)}

NoAggregate == [finalTier |-> EXCELLENT, triggeringRule |-> 0]

AggIdle == aggPc = "idle" /\ aggIn = <<>> /\ aggOut = NoAggregate

Aggregate ==
  /\ aggPc = "call"
  /\ aggOut' = aggregateResults(aggIn)
  /\ aggPc' = "done"
  /\ UNCHANGED aggIn

TiersIn(results) == {results[i].tier : i \in 1..Len(results)}

\* the ordinal minimum of a non-empty set of tiers
MinTier(S) == CHOOSE t \in S : \A u \in S : t <= u

(***************************************************************************)
(* config/tier-config.ts: tierThresholds.  Durations the code keeps as     *)
(* fractional years (maxSecondHandAge 0.5, minCompanyYears,                *)
(* bankruptcyScopeYears) are held in months so that they stay integers;    *)
(* yearlyInterestPercent (5.5 for GOOD) is held in tenths of a percent;    *)
(* null is the empty sequence.                                             *)
(***************************************************************************)
MonthsPerYear == 12

TenthsPerPercent == 10

FinancialTerms(interestTenths, downpayment, period, residual, registrationTax) ==
  [yearlyInterestPercent |-> interestTenths,
   minDownpaymentPercent |-> downpayment,
   maxFinancingPeriodMonths |-> period,
   maxResidualValuePercent |-> residual,
   canFinanceRegistrationTax |-> registrationTax]

tierThresholds ==
  [t \in {EXCELLENT, GOOD, FAIR, POOR} |->
    CASE t = EXCELLENT ->
      [creditRatingMin |-> 70, minCompanyYears |-> 5 * MonthsPerYear,
       maxAdminBankruptcies |-> 0, bankruptcyScopeYears |-> 10 * MonthsPerYear,
       fraudScoreMax |-> 30, sanctionListAllowed |-> "false",
       allowedLegalForms |-> {"BV", "NV", "VOF", "CommV"},
       allowsSecondHand |-> FALSE, minVehicleValue |-> 10000,
       maxSecondHandMileage |-> <<>>, maxSecondHandAge |-> <<>>,
       witholdingObligationAllowed |-> FALSE,
       financialTerms |-> FinancialTerms(3 * TenthsPerPercent, 0, 60, 15, TRUE)]
    [] t = GOOD ->
      [creditRatingMin |-> 55, minCompanyYears |-> 3 * MonthsPerYear,
       maxAdminBankruptcies |-> 1, bankruptcyScopeYears |-> 7 * MonthsPerYear,
       fraudScoreMax |-> 40, sanctionListAllowed |-> "false",
       allowedLegalForms |-> {"BV", "NV", "VOF", "CommV"},
       allowsSecondHand |-> TRUE, minVehicleValue |-> 10000,
       maxSecondHandMileage |-> <<6000>>, maxSecondHandAge |-> <<6>>,
       witholdingObligationAllowed |-> FALSE,
       financialTerms |-> FinancialTerms(55, 0, 60, 15, TRUE)]
    [] t = FAIR ->
      [creditRatingMin |-> 35, minCompanyYears |-> 2 * MonthsPerYear,
       maxAdminBankruptcies |-> 2, bankruptcyScopeYears |-> 5 * MonthsPerYear,
       fraudScoreMax |-> 60, sanctionListAllowed |-> "false",
       allowedLegalForms |-> {"BV", "VOF", "CommV"},
       allowsSecondHand |-> TRUE, minVehicleValue |-> 10000,
       maxSecondHandMileage |-> <<6000>>, maxSecondHandAge |-> <<6>>,
       witholdingObligationAllowed |-> FALSE,
       financialTerms |-> FinancialTerms(12 * TenthsPerPercent, 10, 60, 15, FALSE)]
    [] t = POOR ->
      [creditRatingMin |-> 0, minCompanyYears |-> 1 * MonthsPerYear,
       maxAdminBankruptcies |-> 3, bankruptcyScopeYears |-> 3 * MonthsPerYear,
       fraudScoreMax |-> 70, sanctionListAllowed |-> "manualReview",
       allowedLegalForms |-> {"BV", "NV", "VOF", "CommV", "CV", "VZW", "Eenmanszaak"},
       allowsSecondHand |-> TRUE, minVehicleValue |-> 20000,
       maxSecondHandMileage |-> <<50000>>, maxSecondHandAge |-> <<36>>,
       witholdingObligationAllowed |-> TRUE,
       financialTerms |-> FinancialTerms(22 * TenthsPerPercent, 20, 60, 5, FALSE)]]

\* "Returns undefined for REJECTED and MANUAL_REVIEW"
getTierThresholds(tier) ==
  IF tier = REJECTED \/ tier = MANUAL_REVIEW THEN <<>> ELSE <<tierThresholds[tier]>>

\* mutation: a manual-review decision is given the terms of POOR
getFinancialTerms_manualAsPoor(tier) ==
  IF tier = REJECTED THEN <<>>
  ELSE IF tier = MANUAL_REVIEW THEN <<tierThresholds[POOR].financialTerms>>
  ELSE <<tierThresholds[tier].financialTerms>>

\* thresholds?.financialTerms ?? null
getFinancialTerms(tier) ==
  LET thresholds == getTierThresholds(tier)
  IN  IF thresholds = <<>> THEN <<>> ELSE <<thresholds[1].financialTerms>>

\* tierThresholds[Tier.POOR].insuranceChecks
poorInsuranceChecks ==
  [minDriverAge |-> 25, minLicenseYears |-> 5, maxAccidentsAtFault |-> 3,
   maxAccidentsNotAtFault |-> 5, maxVehicleHorsepower |-> 150]

(***************************************************************************)
(* The loop shared by the tiered rules:                                    *)
(*   for (const tier of tiers) { if (<condition>) return tier }            *)
(*   return Tier.REJECTED                                                  *)
(***************************************************************************)
FirstQualifying(tiers, ok) ==
  IF \E i \in 1..Len(tiers) : ok[tiers[i]]
  THEN tiers[CHOOSE i \in 1..Len(tiers) :
               ok[tiers[i]] /\ \A j \in 1..(i - 1) : ~ok[tiers[j]]]
  ELSE REJECTED

TierSet(tiers) == {tiers[i] : i \in 1..Len(tiers)}

RuleResult(id, t) == [ruleId |-> id, tier |-> t]

(***************************************************************************)
(* General eligibility rules.  A date is [year, month, day]; Today is the  *)
(* value of new Date() during the request.                                 *)
(***************************************************************************)
Today == [year |-> 2026, month |-> 6, day |-> 15]

\* mutation: the birthday that has not yet come this year is not taken off
calculateAge_yearsOnly(dateOfBirth) ==
  Today.year - dateOfBirth.year

calculateAge(dateOfBirth) ==
  LET age == Today.year - dateOfBirth.year
      monthDiff == Today.month - dateOfBirth.month
  IN  IF monthDiff < 0 \/ (monthDiff = 0 /\ Today.day < dateOfBirth.day)
      THEN age - 1
      ELSE age

minimumAgeRule(context) ==
  LET age == calculateAge(context.questionnaire.contact.dateOfBirth)
      minimumAge == 18
  IN  IF age < minimumAge
      THEN RuleResult("minimum-age", REJECTED)
      ELSE RuleResult("minimum-age", EXCELLENT)

belgiumResidencyRule(context) ==
  IF ~context.questionnaire.contact.belgiumResident
  THEN RuleResult("belgium-residency", REJECTED)
  ELSE RuleResult("belgium-residency", EXCELLENT)

isAdministratorRule(context) ==
  IF ~context.questionnaire.contact.isAdministrator
  THEN RuleResult("is-administrator", REJECTED)
  ELSE RuleResult("is-administrator", EXCELLENT)

(***************************************************************************)
(* rules/categories/legal-history.ts.  The three rules are exported but    *)
(* allRules in rules/registry.ts does not list them.                       *)
(***************************************************************************)
contactWithLegalAuthoritiesRule(context) ==
  IF ~context.questionnaire.legalHistory.contactWithLegalAuthorities
  THEN RuleResult("contact-with-legal-authorities", EXCELLENT)
  ELSE RuleResult("contact-with-legal-authorities", MANUAL_REVIEW)

troubleWithPaymentRule(context) ==
  IF ~context.questionnaire.legalHistory.troubleWithPaymentAtFinancingCompany
  THEN RuleResult("trouble-with-payment", EXCELLENT)
  ELSE RuleResult("trouble-with-payment", MANUAL_REVIEW)

blacklistedBanksRule(context) ==
  IF ~(Len(context.questionnaire.legalHistory.blacklistedBanks) > 0)
  THEN RuleResult("blacklisted-banks", EXCELLENT)
  ELSE RuleResult("blacklisted-banks", MANUAL_REVIEW)

(***************************************************************************)
(* Blocklist rule (KYC Protect enforcement hits).                          *)
(***************************************************************************)
\* mutation: a failed screening is reported as "no hit"
blocklistRule_failedIsClean(context) ==
  IF context.kycProtect = <<>>
  THEN RuleResult("blocklist", EXCELLENT)
  ELSE IF context.kycProtect[1].hasEnforcementHit
  THEN RuleResult("blocklist", REJECTED)
  ELSE RuleResult("blocklist", EXCELLENT)

blocklistRule(context) ==
  IF context.kycProtectFailed
  THEN RuleResult("blocklist", MANUAL_REVIEW)
  ELSE IF context.kycProtect = <<>>
  THEN RuleResult("blocklist", EXCELLENT)
  ELSE IF context.kycProtect[1].hasEnforcementHit
  THEN RuleResult("blocklist", REJECTED)
  ELSE RuleResult("blocklist", EXCELLENT)

(***************************************************************************)
(* Company rules.                                                          *)
(***************************************************************************)
\* mutation: without bureau data the rule scores the company at 0
creditRatingRule_defaultScore(context) ==
  LET adjustedScore ==
        IF context.scoreCalculation # <<>> THEN context.scoreCalculation[1].adjustedScore
        ELSE IF context.creditsafe = <<>> THEN 0
        ELSE context.creditsafe[1].creditRating
      Ok(t) == adjustedScore >= tierThresholds[t].creditRatingMin
  IN  RuleResult("credit-rating", FirstQualifying(FunnelTiers, [t \in TierSet(FunnelTiers) |-> Ok(t)]))

creditRatingRule(context) ==
  IF context.creditsafe = <<>>
  THEN RuleResult("credit-rating", MANUAL_REVIEW)
  ELSE LET baseScore == context.creditsafe[1].creditRating
           adjustedScore == IF context.scoreCalculation # <<>>
                            THEN context.scoreCalculation[1].adjustedScore
                            ELSE baseScore
           Ok(t) == adjustedScore >= tierThresholds[t].creditRatingMin
       IN  RuleResult("credit-rating", FirstQualifying(FunnelTiers, [t \in TierSet(FunnelTiers) |-> Ok(t)]))

companyAgeRule(context) ==
  IF context.creditsafe = <<>>
  THEN RuleResult("company-age", MANUAL_REVIEW)
  ELSE LET companyAgeYears == context.creditsafe[1].companyAgeYears
           Ok(t) == companyAgeYears >= tierThresholds[t].minCompanyYears
       IN  RuleResult("company-age", FirstQualifying(FunnelTiers, [t \in TierSet(FunnelTiers) |-> Ok(t)]))

withholdingObligationRule(context) ==
  IF ~context.questionnaire.withholdingObligation.selfDeclaredDebt
  THEN RuleResult("withholding-obligation", EXCELLENT)
  ELSE IF tierThresholds[POOR].witholdingObligationAllowed
  THEN RuleResult("withholding-obligation", POOR)
  ELSE RuleResult("withholding-obligation", REJECTED)

vatValidRule(context) ==
  IF context.vies = <<>>
  THEN RuleResult("vat-valid", MANUAL_REVIEW)
  ELSE IF context.vies[1].apiCallFailed
  THEN RuleResult("vat-valid", MANUAL_REVIEW)
  ELSE IF context.vies[1].valid
  THEN RuleResult("vat-valid", EXCELLENT)
  ELSE RuleResult("vat-valid", MANUAL_REVIEW)

companyActiveRule(context) ==
  IF context.creditsafe = <<>>
  THEN RuleResult("company-active", MANUAL_REVIEW)
  ELSE IF ~context.creditsafe[1].isActive
  THEN RuleResult("company-active", REJECTED)
  ELSE RuleResult("company-active", EXCELLENT)

(***************************************************************************)
(* Administrator rules.                                                    *)
(***************************************************************************)
\* bankruptcies.filter((b) => b.yearsAgo <= scopeYears).length
countBankruptciesInScope(bankruptcies, scopeYears) ==
  Cardinality({i \in 1..Len(bankruptcies) : bankruptcies[i].yearsAgo <= scopeYears})

adminBankruptciesRule(context) ==
  IF context.creditsafe = <<>>
  THEN RuleResult("admin-bankruptcies", MANUAL_REVIEW)
  ELSE LET bankruptcies == context.creditsafe[1].bankruptcies
           Ok(t) == countBankruptciesInScope(bankruptcies, tierThresholds[t].bankruptcyScopeYears)
                      <= tierThresholds[t].maxAdminBankruptcies
       IN  RuleResult("admin-bankruptcies", FirstQualifying(FunnelTiers, [t \in TierSet(FunnelTiers) |-> Ok(t)]))

(***************************************************************************)
(* Fraud rules.                                                            *)
(***************************************************************************)
fraudScoreRule(context) ==
  IF context.creditsafe = <<>> \/ context.creditsafe[1].fraudScore = <<>>
  THEN RuleResult("fraud-score", EXCELLENT)
  ELSE LET fraudScore == context.creditsafe[1].fraudScore[1]
           Ok(t) == fraudScore <= tierThresholds[t].fraudScoreMax
       IN  RuleResult("fraud-score", FirstQualifying(FunnelTiers, [t \in TierSet(FunnelTiers) |-> Ok(t)]))

\* questionnaire._mock?.sanctionListHit ?? false
sanctionListRule(context) ==
  LET hasHit == IF context.questionnaire._mock = <<>> THEN FALSE
                ELSE context.questionnaire._mock[1].sanctionListHit
  IN  IF ~hasHit
      THEN RuleResult("sanction-list", EXCELLENT)
      ELSE IF tierThresholds[POOR].sanctionListAllowed = "manualReview"
      THEN RuleResult("sanction-list", MANUAL_REVIEW)
      ELSE RuleResult("sanction-list", REJECTED)

(***************************************************************************)
(* Legal-status rule.                                                      *)
(***************************************************************************)
\* context.creditsafe?.legalForm ?? context.company.legalForm
legalFormRule(context) ==
  LET legalForm == IF context.creditsafe # <<>>
                   THEN context.creditsafe[1].legalForm
                   ELSE context.company.legalForm
      Ok(t) == legalForm \in tierThresholds[t].allowedLegalForms
  IN  RuleResult("legal-form", FirstQualifying(FunnelTiers, [t \in TierSet(FunnelTiers) |-> Ok(t)]))

(***************************************************************************)
(* Asset rules.                                                            *)
(***************************************************************************)
vehicleTypeRule(context) ==
  IF context.questionnaire.vehicle.type = "new"
  THEN RuleResult("vehicle-type", EXCELLENT)
  ELSE LET Ok(t) == tierThresholds[t].allowsSecondHand
       IN  RuleResult("vehicle-type", FirstQualifying(FunnelTiers, [t \in TierSet(FunnelTiers) |-> Ok(t)]))

vehicleValueRule(context) ==
  LET vehicleValue == context.questionnaire.vehicle.value
      Ok(t) == vehicleValue >= tierThresholds[t].minVehicleValue
  IN  RuleResult("vehicle-value", FirstQualifying(FunnelTiers, [t \in TierSet(FunnelTiers) |-> Ok(t)]))

vehicleMileageRule(context) ==
  IF context.questionnaire.vehicle.type = "new"
  THEN RuleResult("vehicle-mileage", EXCELLENT)
  ELSE LET mileage == context.questionnaire.vehicle.mileage
           Ok(t) == LET maxMileage == tierThresholds[t].maxSecondHandMileage
                    IN  maxMileage # <<>> /\ mileage <= maxMileage[1]
       IN  RuleResult("vehicle-mileage", FirstQualifying(SecondHandTiers, [t \in TierSet(SecondHandTiers) |-> Ok(t)]))

vehicleAgeRule(context) ==
  IF context.questionnaire.vehicle.type = "new"
  THEN RuleResult("vehicle-age", EXCELLENT)
  ELSE LET ageYears == context.questionnaire.vehicle.ageYears
           Ok(t) == LET maxAge == tierThresholds[t].maxSecondHandAge
                    IN  maxAge # <<>> /\ ageYears <= maxAge[1]
       IN  RuleResult("vehicle-age", FirstQualifying(SecondHandTiers, [t \in TierSet(SecondHandTiers) |-> Ok(t)]))

(***************************************************************************)
(* Insurance rules: each compares with the POOR tier's insuranceChecks.    *)
(***************************************************************************)
driverAgeRule(context) ==
  IF context.questionnaire.insuranceHistory.driverAge >= poorInsuranceChecks.minDriverAge
  THEN RuleResult("driver-age", EXCELLENT)
  ELSE RuleResult("driver-age", REJECTED)

licenseDurationRule(context) ==
  IF context.questionnaire.insuranceHistory.licenseYears >= poorInsuranceChecks.minLicenseYears
  THEN RuleResult("license-duration", EXCELLENT)
  ELSE RuleResult("license-duration", REJECTED)

accidentsAtFaultRule(context) ==
  IF context.questionnaire.insuranceHistory.accidentsAtFault <= poorInsuranceChecks.maxAccidentsAtFault
  THEN RuleResult("accidents-at-fault", EXCELLENT)
  ELSE RuleResult("accidents-at-fault", REJECTED)

accidentsNotAtFaultRule(context) ==
  IF context.questionnaire.insuranceHistory.accidentsNotAtFault
       <= poorInsuranceChecks.maxAccidentsNotAtFault
  THEN RuleResult("accidents-not-at-fault", EXCELLENT)
  ELSE RuleResult("accidents-not-at-fault", REJECTED)

vehicleHorsepowerRule(context) ==
  IF context.questionnaire.vehicle.horsepower <= poorInsuranceChecks.maxVehicleHorsepower
  THEN RuleResult("vehicle-horsepower", EXCELLENT)
  ELSE RuleResult("vehicle-horsepower", REJECTED)

(***************************************************************************)
(* rules/registry: allRules in registration order, evaluateAllRules.       *)
(***************************************************************************)
\* mutation: the general eligibility rules are left out of the registry
evaluateAllRules_noEligibility(context) ==
  << blocklistRule(context),
     vatValidRule(context), companyActiveRule(context), creditRatingRule(context),
     companyAgeRule(context), withholdingObligationRule(context),
     adminBankruptciesRule(context),
     fraudScoreRule(context), sanctionListRule(context),
     legalFormRule(context),
     vehicleTypeRule(context), vehicleValueRule(context), vehicleMileageRule(context),
     vehicleAgeRule(context),
     driverAgeRule(context), licenseDurationRule(context), accidentsAtFaultRule(context),
     accidentsNotAtFaultRule(context), vehicleHorsepowerRule(context) >>

\* rules.map((rule) => rule.evaluate(context, tierThresholds)) over allRules
evaluateAllRules(context) ==
  << blocklistRule(context),
     minimumAgeRule(context), belgiumResidencyRule(context), isAdministratorRule(context),
     vatValidRule(context), companyActiveRule(context), creditRatingRule(context),
     companyAgeRule(context), withholdingObligationRule(context),
     adminBankruptciesRule(context),
     fraudScoreRule(context), sanctionListRule(context),
     legalFormRule(context),
     vehicleTypeRule(context), vehicleValueRule(context), vehicleMileageRule(context),
     vehicleAgeRule(context),
     driverAgeRule(context), licenseDurationRule(context), accidentsAtFaultRule(context),
     accidentsNotAtFaultRule(context), vehicleHorsepowerRule(context) >>

\* the result a rule id produced in a list of results
ResultOf(results, id) ==
  results[CHOOSE i \in 1..Len(results) : results[i].ruleId = id]

(***************************************************************************)
(* Strings that are normalised before comparison are sequences of          *)
(* one-character strings; "" and undefined are both the empty sequence     *)
(* where the code only tests truthiness.                                   *)
(***************************************************************************)
toLowerCaseChar(c) ==
  CASE c = "A" -> "a"
    [] c = "B" -> "b"
    [] OTHER -> c

toLowerCase(str) == [i \in 1..Len(str) |-> toLowerCaseChar(str[i])]

RECURSIVE trim(_)
trim(str) ==
  IF str = <<>> THEN str
  ELSE IF Head(str) = " " THEN trim(Tail(str))
  ELSE IF str[Len(str)] = " " THEN trim(SubSeq(str, 1, Len(str) - 1))
  ELSE str

(***************************************************************************)
(* services/creditsafe/mapper.ts                                           *)
(***************************************************************************)
\* Math.max(0, elapsed); elapsed time is counted in whole months
yearsSince(monthsAgo) == IF monthsAgo < 0 THEN 0 ELSE monthsAgo

\* description.toUpperCase().trim() looked up in the mappings table; the
\* descriptions of the model are already upper case and untrimmed keys
normalizeLegalForm(description) ==
  CASE description = "BV" -> "BV"
    [] description = "SPRL" -> "BV"
    [] description = "NV" -> "NV"
    [] description = "SA" -> "NV"
    [] description = "SC" -> "CV"
    [] OTHER -> description

\* String.prototype.toLowerCase on the status words of the model
statusToLowerCase(status) ==
  CASE status = "Active" -> "active"
    [] status = "Actief" -> "actief"
    [] status = "Bankrupt" -> "bankrupt"
    [] OTHER -> status

\* r.directors.currentDirectors.map(...) dereferences a section the payload may lack
mapCreditsafeResponseThrows(report) == report.directors = <<>>

\* parseInt(credit.providerValue.value, 10) || 0 : an unparseable value is NaN, then 0
mapCreditsafeResponse(report) ==
  [companyName |-> IF report.businessName # <<>> THEN report.businessName
                   ELSE report.registeredCompanyName,
   companyAgeYears |-> yearsSince(report.companyRegistrationDate),
   legalForm |-> normalizeLegalForm(report.legalFormDescription),
   isActive |-> statusToLowerCase(report.companyStatus) \in {"active", "actief"},
   creditRating |-> IF report.providerValue = <<>> THEN 0 ELSE report.providerValue[1],
   fraudScore |-> report.fraudScore,
   bankruptcies |-> [i \in 1..Len(report.bankruptcyInformation) |->
                       [yearsAgo |-> yearsSince(report.bankruptcyInformation[i].date)]],
   totalBankruptcies |-> Len(report.bankruptcyInformation)]

(***************************************************************************)
(* services/kyc-protect/mapper.ts                                          *)
(***************************************************************************)
\* mutation: every returned hit counts, verified or not, whatever its name
isRelevantHit_any(hit, searchedName) == TRUE

isRelevantHit(hit, searchedName) ==
  IF hit.decision # "trueMatch" THEN FALSE
  ELSE trim(toLowerCase(hit.name)) = trim(toLowerCase(searchedName))

\* hits.filter((hit) => isRelevantHit(hit, companyName))
RECURSIVE filterRelevant(_, _)
filterRelevant(hits, companyName) ==
  IF hits = <<>> THEN <<>>
  ELSE IF isRelevantHit(Head(hits), companyName)
  THEN <<Head(hits)>> \o filterRelevant(Tail(hits), companyName)
  ELSE filterRelevant(Tail(hits), companyName)

mapKycProtectResponse(searchResponse, hits, companyName) ==
  LET relevantHits == filterRelevant(hits, companyName)
      Some(code) == \E i \in 1..Len(relevantHits) : code \in relevantHits[i].datasets
  IN  [searchId |-> searchResponse.id,
       companyName |-> companyName,
       hasSanctionHit |-> Some("SAN"),
       hasEnforcementHit |-> Some("ENF"),
       hasPepHit |-> Some("PEP"),
       hasAdverseMediaHit |-> Some("AM"),
       totalHits |-> Len(relevantHits),
       hits |-> relevantHits]

(***************************************************************************)
(* services/data-enrichment.ts: enrichData.                                *)
(***************************************************************************)
\* the locals declared at the top of enrichData
NoEnrichment ==
  [creditsafe |-> <<>>, vies |-> <<>>, kycProtect |-> <<>>,
   creditsafeFailed |-> FALSE, viesFailed |-> FALSE, kycProtectFailed |-> FALSE,
   errors |-> <<>>]

NotCalled == [status |-> "none", value |-> <<>>]

Pending == [status |-> "pending", value |-> <<>>]

\* "Process Creditsafe result": a fulfilled non-null report is mapped, a
\* fulfilled null and a rejection set creditsafeFailed
ProcessCreditsafe(e, result) ==
  IF result.status = "fulfilled"
  THEN IF result.value # <<>>
       THEN [e EXCEPT !.creditsafe = <<mapCreditsafeResponse(result.value[1])>>]
       ELSE [e EXCEPT !.creditsafeFailed = TRUE,
                      !.errors = Append(@, "Company not found in Creditsafe")]
  ELSE [e EXCEPT !.creditsafeFailed = TRUE,
                 !.errors = Append(@, "Creditsafe API error")]

\* mutation: the "VALID" marker in the error field counts as a failure too
ProcessVies_anyError(e, result) ==
  IF result.status = "fulfilled"
  THEN IF result.value[1].error # <<>>
       THEN [e EXCEPT !.vies = result.value, !.viesFailed = TRUE,
                      !.errors = Append(@, "VIES error")]
       ELSE [e EXCEPT !.vies = result.value]
  ELSE [e EXCEPT !.viesFailed = TRUE, !.errors = Append(@, "VIES API error")]

\* "Process VIES result"
ProcessVies(e, result) ==
  IF result.status = "fulfilled"
  THEN IF result.value[1].error # <<>> /\ result.value[1].error # <<"VALID">>
       THEN [e EXCEPT !.vies = result.value, !.viesFailed = TRUE,
                      !.errors = Append(@, "VIES error")]
       ELSE [e EXCEPT !.vies = result.value]
  ELSE [e EXCEPT !.viesFailed = TRUE, !.errors = Append(@, "VIES API error")]

\* mutation: the VAT registry's name is preferred to the bureau's
CompanyNameOf_registryFirst(e) ==
  IF e.vies # <<>> /\ e.vies[1].companyName # <<>>
  THEN e.vies[1].companyName
  ELSE IF e.creditsafe # <<>> THEN e.creditsafe[1].companyName
  ELSE <<>>

\* creditsafe?.companyName || vies?.companyName ; <<>> is "no name"
CompanyNameOf(e) ==
  IF e.creditsafe # <<>> /\ e.creditsafe[1].companyName # <<>>
  THEN e.creditsafe[1].companyName
  ELSE IF e.vies # <<>> THEN e.vies[1].companyName
  ELSE <<>>

\* the try block around searchBusinessWithHits and mapKycProtectResponse, with
\* its catch: a rejection, or a payload without a hit list, sets kycProtectFailed
ProcessKyc(e, settles, searchResult, companyName) ==
  IF settles = "fulfilled" /\ searchResult.hits # <<>>
  THEN [e EXCEPT !.kycProtect =
          <<mapKycProtectResponse(searchResult, searchResult.hits[1], companyName)>>]
  ELSE [e EXCEPT !.kycProtectFailed = TRUE,
                 !.errors = Append(@, "KYC Protect API error")]

\* buildRuleContext: scoreCalculation is not among the fields it sets
buildRuleContext(req, e) ==
  [questionnaire |-> req.questionnaire,
   company |-> req.company,
   creditsafe |-> e.creditsafe,
   vies |-> IF e.vies # <<>>
            THEN <<[valid |-> e.vies[1].valid,
                    companyName |-> e.vies[1].companyName,
                    error |-> e.vies[1].error,
                    apiCallFailed |-> e.viesFailed]>>
            ELSE <<>>,
   kycProtect |-> e.kycProtect,
   creditsafeFailed |-> e.creditsafeFailed,
   viesFailed |-> e.viesFailed,
   kycProtectFailed |-> e.kycProtectFailed,
   scoreCalculation |-> <<>>]

(***************************************************************************)
(* The requests and lookup outcomes of the model.  Baseline is a request   *)
(* every rule passes at EXCELLENT with all three lookups succeeding; a     *)
(* scenario differs from it in at most MaxVaried fields.                   *)
(***************************************************************************)
CompanyName == <<"A", "b">>

Hit(decision, name, datasets) == [decision |-> decision, name |-> name, datasets |-> datasets]

Baseline ==
  [dateOfBirth |-> [year |-> 1980, month |-> 1, day |-> 1],
   belgiumResident |-> TRUE,
   isAdministrator |-> TRUE,
   legalForm |-> "BV",
   selfDeclaredDebt |-> FALSE,
   contactWithLegalAuthorities |-> FALSE,
   troubleWithPaymentAtFinancingCompany |-> FALSE,
   blacklistedBanks |-> <<>>,
   queryTier |-> <<>>,
   mock |-> <<>>,
   vehicleType |-> "new",
   vehicleValue |-> 25000,
   mileage |-> 0,
   ageYears |-> 0,
   horsepower |-> 110,
   driverAge |-> 40,
   licenseYears |-> 20,
   accidentsAtFault |-> 0,
   accidentsNotAtFault |-> 0,
   creditsafeSettles |-> "report",
   businessName |-> CompanyName,
   registeredCompanyName |-> CompanyName,
   providerValue |-> <<85>>,
   companyRegistrationDate |-> 120,
   companyStatus |-> "Active",
   legalFormDescription |-> "BV",
   fraudScore |-> <<10>>,
   bankruptcyInformation |-> <<>>,
   directors |-> << <<>> >>,
   viesSettles |-> "fulfilled",
   viesValid |-> TRUE,
   viesName |-> CompanyName,
   viesError |-> <<>>,
   kycSettles |-> "fulfilled",
   kycHits |-> << <<>> >>]

\* <<field, value>>: the other values a field takes
Alternatives ==
  << <<"dateOfBirth", [year |-> 2008, month |-> 6, day |-> 15]>>,
     <<"dateOfBirth", [year |-> 2008, month |-> 6, day |-> 16]>>,
     <<"dateOfBirth", [year |-> 2008, month |-> 7, day |-> 1]>>,
     <<"dateOfBirth", [year |-> 2008, month |-> 5, day |-> 30]>>,
     <<"dateOfBirth", [year |-> 2009, month |-> 1, day |-> 1]>>,
     <<"belgiumResident", FALSE>>,
     <<"isAdministrator", FALSE>>,
     <<"legalForm", "NV">>, <<"legalForm", "Stichting">>,
     <<"selfDeclaredDebt", TRUE>>,
     <<"contactWithLegalAuthorities", TRUE>>,
     <<"troubleWithPaymentAtFinancingCompany", TRUE>>,
     <<"blacklistedBanks", <<"Bank A">> >>,
     <<"queryTier", <<"poor">> >>, <<"queryTier", <<"excellent">> >>,
     <<"queryTier", <<"rejected">> >>,
     <<"mock", <<[sanctionListHit |-> TRUE]>> >>,
     <<"vehicleType", "secondHand">>,
     <<"vehicleValue", 9999>>, <<"vehicleValue", 10000>>,
     <<"mileage", 6001>>, <<"mileage", 50001>>,
     <<"ageYears", 7>>, <<"ageYears", 37>>,
     <<"horsepower", 151>>,
     <<"driverAge", 24>>,
     <<"licenseYears", 4>>,
     <<"accidentsAtFault", 4>>,
     <<"accidentsNotAtFault", 6>>,
     <<"creditsafeSettles", "null">>, <<"creditsafeSettles", "rejected">>,
     <<"businessName", <<>> >>,
     <<"registeredCompanyName", <<>> >>,
     <<"providerValue", <<69>> >>, <<"providerValue", <<54>> >>,
     <<"providerValue", <<34>> >>, <<"providerValue", <<>> >>,
     <<"companyRegistrationDate", 59>>, <<"companyRegistrationDate", 35>>,
     <<"companyRegistrationDate", 23>>, <<"companyRegistrationDate", 11>>,
     <<"companyRegistrationDate", 0 - 1>>,
     <<"companyStatus", "Actief">>, <<"companyStatus", "Bankrupt">>,
     <<"legalFormDescription", "SA">>, <<"legalFormDescription", "SC">>,
     <<"legalFormDescription", "Stichting">>,
     <<"fraudScore", <<>> >>, <<"fraudScore", <<31>> >>,
     <<"fraudScore", <<61>> >>, <<"fraudScore", <<71>> >>,
     <<"bankruptcyInformation", <<[date |-> 30]>> >>,
     <<"bankruptcyInformation", <<[date |-> 30], [date |-> 50]>> >>,
     <<"bankruptcyInformation", <<[date |-> 10], [date |-> 20], [date |-> 30], [date |-> 36]>> >>,
     <<"directors", <<>> >>,
     <<"viesSettles", "rejected">>,
     <<"viesValid", FALSE>>,
     <<"viesName", <<>> >>, <<"viesName", <<"C">> >>,
     <<"viesError", <<"VALID">> >>, <<"viesError", <<"MS_UNAVAILABLE">> >>,
     <<"kycSettles", "rejected">>,
     <<"kycHits", <<>> >>,
     <<"kycHits", << <<Hit("trueMatch", CompanyName, {"ENF"})>> >> >>,
     <<"kycHits", << <<Hit("trueMatch", <<" ", "a", "B", " ">>, {"ENF", "AM"})>> >> >>,
     <<"kycHits", << <<Hit("falsePositive", CompanyName, {"ENF"})>> >> >>,
     <<"kycHits", << <<Hit("trueMatch", <<"A", "b", "b">>, {"ENF"})>> >> >>,
     <<"kycHits", << <<Hit("trueMatch", CompanyName, {"SAN"})>> >> >>,
     <<"kycHits", << <<Hit("undecided", CompanyName, {"PEP"}),
                       Hit("trueMatch", CompanyName, {"ENF"})>> >> >> >>

\* the alternatives that may follow the choice list c: later in Alternatives
\* than its last entry and for a field it has not varied yet
Further(c) ==
  {i \in 1..Len(Alternatives) :
     \A a \in 1..Len(c) : c[a] < i /\ Alternatives[c[a]][1] # Alternatives[i][1]}

\* index lists into Alternatives, at most n long, each varying n distinct fields
RECURSIVE Choices(_)
Choices(n) ==
  IF n = 0 THEN {<<>>}
  ELSE LET fewer == Choices(n - 1)
       IN  fewer \cup UNION {{Append(c, i) : i \in Further(c)}
                               : c \in {d \in fewer : Len(d) = n - 1}}

\* Baseline with the chosen alternatives put in
RECURSIVE Varied(_, _)
Varied(sc, c) ==
  IF c = <<>> THEN sc
  ELSE Varied([sc EXCEPT ![Alternatives[Head(c)][1]] = Alternatives[Head(c)][2]], Tail(c))

Scenarios == Choices(MaxVaried)

\* the request body of a scenario, and its query string
RequestOf(sc) ==
  [query |-> [tier |-> sc.queryTier],
   company |-> [vatNumber |-> "BE0123456789", legalForm |-> sc.legalForm],
   questionnaire |->
     [contact |-> [dateOfBirth |-> sc.dateOfBirth,
                   belgiumResident |-> sc.belgiumResident,
                   isAdministrator |-> sc.isAdministrator],
      legalHistory |->
        [contactWithLegalAuthorities |-> sc.contactWithLegalAuthorities,
         troubleWithPaymentAtFinancingCompany |-> sc.troubleWithPaymentAtFinancingCompany,
         blacklistedBanks |-> sc.blacklistedBanks],
      insuranceHistory |-> [driverAge |-> sc.driverAge,
                            licenseYears |-> sc.licenseYears,
                            accidentsAtFault |-> sc.accidentsAtFault,
                            accidentsNotAtFault |-> sc.accidentsNotAtFault],
      vehicle |-> [type |-> sc.vehicleType, horsepower |-> sc.horsepower,
                   value |-> sc.vehicleValue, mileage |-> sc.mileage,
                   ageYears |-> sc.ageYears],
      withholdingObligation |-> [selfDeclaredDebt |-> sc.selfDeclaredDebt],
      _mock |-> sc.mock]]

\* what the three lookups of a scenario settle with
WorldOf(sc) ==
  [creditsafe |->
     [settles |-> sc.creditsafeSettles,
      report |-> [businessName |-> sc.businessName,
                  registeredCompanyName |-> sc.registeredCompanyName,
                  providerValue |-> sc.providerValue,
                  companyRegistrationDate |-> sc.companyRegistrationDate,
                  companyStatus |-> sc.companyStatus,
                  legalFormDescription |-> sc.legalFormDescription,
                  fraudScore |-> sc.fraudScore,
                  bankruptcyInformation |-> sc.bankruptcyInformation,
                  directors |-> sc.directors]],
   vies |->
     [settles |-> sc.viesSettles,
      result |-> [valid |-> sc.viesValid, companyName |-> sc.viesName,
                  error |-> sc.viesError]],
   kyc |->
     [settles |-> sc.kycSettles,
      searchResult |-> [id |-> "search-1", hits |-> sc.kycHits]]]

(***************************************************************************)
(* POST /api/v1/credit-check, one request at a time.                       *)
(***************************************************************************)
ReqIdle ==
  /\ pc = "idle"
  /\ request = RequestOf(Baseline)
  /\ world = WorldOf(Baseline)
  /\ creditsafeResult = NotCalled
  /\ viesResult = NotCalled
  /\ enrichment = NoEnrichment
  /\ ruleContext = <<>>
  /\ response = <<>>
  /\ kycRequest = <<>>

\* enrichData starts both lookups inside Promise.allSettled
StartLookups ==
  /\ pc = "enrichData"
  /\ creditsafeResult' = Pending
  /\ viesResult' = Pending
  /\ pc' = "allSettled"
  /\ UNCHANGED <<request, world, enrichment, ruleContext, response, kycRequest, aggVars, authVars, scoreVars, lookupVars, viesVars>>

\* getCompanyReportByVat settles: a report, null (no company), or a rejection
CreditsafeSettles ==
  /\ pc = "allSettled"
  /\ creditsafeResult.status = "pending"
  /\ creditsafeResult' =
       CASE world.creditsafe.settles = "report" ->
              [status |-> "fulfilled", value |-> <<world.creditsafe.report>>]
         [] world.creditsafe.settles = "null" ->
              [status |-> "fulfilled", value |-> <<>>]
         [] OTHER -> [status |-> "rejected", value |-> <<>>]
  /\ UNCHANGED <<pc, request, world, viesResult, enrichment, ruleContext, response, kycRequest, aggVars, authVars, scoreVars, lookupVars, viesVars>>

\* validateVatNumber settles
ViesSettles ==
  /\ pc = "allSettled"
  /\ viesResult.status = "pending"
  /\ viesResult' =
       IF world.vies.settles = "fulfilled"
       THEN [status |-> "fulfilled", value |-> <<world.vies.result>>]
       ELSE [status |-> "rejected", value |-> <<>>]
  /\ UNCHANGED <<pc, request, world, creditsafeResult, enrichment, ruleContext, response, kycRequest, aggVars, authVars, scoreVars, lookupVars, viesVars>>

\* both settled: the synchronous stretch of enrichData up to the screening call.
\* mapCreditsafeResponse runs outside any try block, so its exception leaves
\* enrichData, and the handler, rejected.
ProcessLookups ==
  /\ pc = "allSettled"
  /\ creditsafeResult.status \in {"fulfilled", "rejected"}
  /\ viesResult.status \in {"fulfilled", "rejected"}
  /\ IF /\ creditsafeResult.status = "fulfilled"
        /\ creditsafeResult.value # <<>>
        /\ mapCreditsafeResponseThrows(creditsafeResult.value[1])
     THEN /\ pc' = "thrown"
          /\ UNCHANGED <<enrichment, kycRequest>>
     ELSE LET e == ProcessVies(ProcessCreditsafe(enrichment, creditsafeResult), viesResult)
          IN  /\ enrichment' = e
              /\ pc' = IF CompanyNameOf(e) # <<>> THEN "screening" ELSE "enriched"
              /\ kycRequest' = IF CompanyNameOf(e) # <<>> THEN <<CompanyNameOf(e)>> ELSE <<>>
  /\ UNCHANGED <<request, world, creditsafeResult, viesResult, ruleContext, response, aggVars, authVars, scoreVars, lookupVars, viesVars>>

\* searchBusinessWithHits settles and is mapped, or the catch block runs
KycSettles ==
  /\ pc = "screening"
  /\ enrichment' = ProcessKyc(enrichment, world.kyc.settles, world.kyc.searchResult,
                              CompanyNameOf(enrichment))
  /\ pc' = "enriched"
  /\ UNCHANGED <<request, world, creditsafeResult, viesResult, ruleContext, response, kycRequest, aggVars, authVars, scoreVars, lookupVars, viesVars>>

BuildContext ==
  /\ pc = "enriched"
  /\ ruleContext' = <<buildRuleContext(request, enrichment)>>
  /\ pc' = "evaluate"
  /\ UNCHANGED <<request, world, creditsafeResult, viesResult, enrichment, response, kycRequest, aggVars, authVars, scoreVars, lookupVars, viesVars>>

EvaluateRules ==
  /\ pc = "evaluate"
  /\ aggIn' = evaluateAllRules(ruleContext[1])
  /\ aggPc' = "call"
  /\ pc' = "aggregate"
  /\ UNCHANGED <<request, world, creditsafeResult, viesResult, enrichment, ruleContext,
                 response, kycRequest, aggOut, authVars, scoreVars, lookupVars, viesVars>>

AggregateRules ==
  /\ pc = "aggregate"
  /\ Aggregate
  /\ UNCHANGED <<reqVars, authVars, scoreVars, lookupVars, viesVars>>

Respond ==
  /\ pc = "aggregate"
  /\ aggPc = "done"
  /\ response' = <<[tier |-> aggOut.finalTier,
                    requiresManualReview |-> aggOut.finalTier = MANUAL_REVIEW,
                    financialTerms |-> getFinancialTerms(aggOut.finalTier)]>>
  /\ pc' = "responded"
  /\ UNCHANGED <<request, world, creditsafeResult, viesResult, enrichment, ruleContext, kycRequest, aggVars, authVars, scoreVars, lookupVars, viesVars>>

(***************************************************************************)
(* services/creditsafe/client.ts: authenticate and its token cache.        *)
(* Instants are minutes; tokens are numbered by the request that got them. *)
(***************************************************************************)
\* 55 * 60 * 1000 ms
TokenLifetime == 55

Callers == 1..NumCallers

\* minutes that may pass between two events
Elapsed == {1, TokenLifetime - 1}

NotCalling == [at |-> "idle", outcome |-> "none", token |-> 0]

AuthIdle ==
  /\ cachedToken = <<>>
  /\ tokenExpiresAt = 0
  /\ now = 0
  /\ ticks = 0
  /\ authCall = [c \in Callers |-> NotCalling]
  /\ authRequests = 0

\* mutation: a cached token is used whatever its age
CacheIsLive_noExpiry == cachedToken # <<>>

\* if (cachedToken && Date.now() < tokenExpiresAt)
CacheIsLive == cachedToken # <<>> /\ now < tokenExpiresAt

\* a caller enters authenticate() and finds a live token: it returns at once
AuthenticateCached(c) ==
  /\ authCall[c].at = "idle"
  /\ CacheIsLive
  /\ authCall' = [authCall EXCEPT ![c] = [at |-> "idle", outcome |-> "cached",
                                          token |-> cachedToken[1]]]
  /\ UNCHANGED <<cachedToken, tokenExpiresAt, now, ticks, authRequests, aggVars, reqVars, scoreVars, lookupVars, viesVars>>

\* a caller enters authenticate(), finds no live token and runs on to the
\* await of fetch(): the POST is on its way and the caller is suspended
AuthenticateSend(c) ==
  /\ authCall[c].at = "idle"
  /\ ~CacheIsLive
  /\ authRequests < MaxAuthRequests
  /\ authRequests' = authRequests + 1
  /\ authCall' = [authCall EXCEPT ![c] = [at |-> "fetch", outcome |-> "none",
                                          token |-> authRequests + 1]]
  /\ UNCHANGED <<cachedToken, tokenExpiresAt, now, ticks, aggVars, reqVars, scoreVars, lookupVars, viesVars>>

\* the response is ok: the token is cached for TokenLifetime and returned
AuthenticateOk(c) ==
  /\ authCall[c].at = "fetch"
  /\ cachedToken' = <<authCall[c].token>>
  /\ tokenExpiresAt' = now + TokenLifetime
  /\ authCall' = [authCall EXCEPT ![c] = [at |-> "idle", outcome |-> "fetched",
                                          token |-> authCall[c].token]]
  /\ UNCHANGED <<now, ticks, authRequests, aggVars, reqVars, scoreVars, lookupVars, viesVars>>

\* the response is not ok, the fetch is aborted after TIMEOUT_MS, or the
\* network fails: authenticate() throws and the cache is left as it was
AuthenticateThrows(c) ==
  /\ authCall[c].at = "fetch"
  /\ authCall' = [authCall EXCEPT ![c] = [at |-> "idle", outcome |-> "threw", token |-> 0]]
  /\ UNCHANGED <<cachedToken, tokenExpiresAt, now, ticks, authRequests, aggVars, reqVars, scoreVars, lookupVars, viesVars>>

\* time passes
Tick ==
  /\ ticks < MaxTicks
  /\ \E d \in Elapsed : now' = now + d
  /\ ticks' = ticks + 1
  /\ UNCHANGED <<cachedToken, tokenExpiresAt, authCall, authRequests, aggVars, reqVars, scoreVars, lookupVars, viesVars>>

(***************************************************************************)
(* config/delta-config.ts.  A DeltaOutcome is a number, "reject" or        *)
(* "manual"; strings that are cleaned or matched by prefix are sequences   *)
(* of one-character strings.                                               *)
(***************************************************************************)
Num(n) == [kind |-> "number", n |-> n]

Reject == [kind |-> "reject", n |-> 0]

Manual == [kind |-> "manual", n |-> 0]

postcodeDeltas ==
  <<
     [prefix |-> <<"1", "3", "4", "0">>, delta |-> 20],
     [prefix |-> <<"8", "3", "0", "0">>, delta |-> 20],
     [prefix |-> <<"2", "0", "0">>, delta |-> -30],
     [prefix |-> <<"1", "0", "0">>, delta |-> -30],
     [prefix |-> <<"1", "0", "8">>, delta |-> -30],
     [prefix |-> <<"1", "0">>, delta |-> -20],
     [prefix |-> <<"1", "1">>, delta |-> -20],
     [prefix |-> <<"1", "2">>, delta |-> -20],
     [prefix |-> <<"2", "0">>, delta |-> -15],
     [prefix |-> <<"2", "1">>, delta |-> -15],
     [prefix |-> <<"2", "2">>, delta |-> 0],
     [prefix |-> <<"2", "3">>, delta |-> 0],
     [prefix |-> <<"2", "4">>, delta |-> 0],
     [prefix |-> <<"2", "5">>, delta |-> 0],
     [prefix |-> <<"2", "6">>, delta |-> 0],
     [prefix |-> <<"2", "7">>, delta |-> 0],
     [prefix |-> <<"2", "8">>, delta |-> 0],
     [prefix |-> <<"2", "9">>, delta |-> 0],
     [prefix |-> <<"3", "0">>, delta |-> 10],
     [prefix |-> <<"3", "1">>, delta |-> 10],
     [prefix |-> <<"3", "2">>, delta |-> 10],
     [prefix |-> <<"3", "3">>, delta |-> 10],
     [prefix |-> <<"3", "4">>, delta |-> 10],
     [prefix |-> <<"4", "0">>, delta |-> -20],
     [prefix |-> <<"4", "1">>, delta |-> -20],
     [prefix |-> <<"4", "2">>, delta |-> -20],
     [prefix |-> <<"4", "3">>, delta |-> -20],
     [prefix |-> <<"4", "4">>, delta |-> -20],
     [prefix |-> <<"4", "5">>, delta |-> -20],
     [prefix |-> <<"4", "6">>, delta |-> -20],
     [prefix |-> <<"4", "7">>, delta |-> -20],
     [prefix |-> <<"4", "8">>, delta |-> -20],
     [prefix |-> <<"4", "9">>, delta |-> -20],
     [prefix |-> <<"5", "0">>, delta |-> 0],
     [prefix |-> <<"5", "1">>, delta |-> 0],
     [prefix |-> <<"5", "2">>, delta |-> 0],
     [prefix |-> <<"5", "3">>, delta |-> 0],
     [prefix |-> <<"5", "4">>, delta |-> 0],
     [prefix |-> <<"5", "5">>, delta |-> 0],
     [prefix |-> <<"5", "6">>, delta |-> 0],
     [prefix |-> <<"5", "7">>, delta |-> 0],
     [prefix |-> <<"5", "8">>, delta |-> 0],
     [prefix |-> <<"5", "9">>, delta |-> 0],
     [prefix |-> <<"6", "0">>, delta |-> -25],
     [prefix |-> <<"6", "1">>, delta |-> -25],
     [prefix |-> <<"6", "2">>, delta |-> -25],
     [prefix |-> <<"6", "3">>, delta |-> -25],
     [prefix |-> <<"6", "4">>, delta |-> -25],
     [prefix |-> <<"6", "5">>, delta |-> -25],
     [prefix |-> <<"8", "0">>, delta |-> 10],
     [prefix |-> <<"8", "1">>, delta |-> 10],
     [prefix |-> <<"8", "2">>, delta |-> 10],
     [prefix |-> <<"8", "3">>, delta |-> 10],
     [prefix |-> <<"8", "4">>, delta |-> 10],
     [prefix |-> <<"8", "5">>, delta |-> 10],
     [prefix |-> <<"8", "6">>, delta |-> 10],
     [prefix |-> <<"8", "7">>, delta |-> 10],
     [prefix |-> <<"8", "8">>, delta |-> 10],
     [prefix |-> <<"8", "9">>, delta |-> 10],
     [prefix |-> <<"9", "0">>, delta |-> 0],
     [prefix |-> <<"9", "1">>, delta |-> 0],
     [prefix |-> <<"9", "2">>, delta |-> 0],
     [prefix |-> <<"9", "3">>, delta |-> 0],
     [prefix |-> <<"9", "4">>, delta |-> 0],
     [prefix |-> <<"9", "5">>, delta |-> 0],
     [prefix |-> <<"9", "6">>, delta |-> 0],
     [prefix |-> <<"9", "7">>, delta |-> 0],
     [prefix |-> <<"9", "8">>, delta |-> 0],
     [prefix |-> <<"9", "9">>, delta |-> 0]
  >>

naceDeltas ==
  << [codes |-> << <<"4", "6", ".", "7", "2">> >>,
      excellent |-> Reject, good |-> Reject, fair |-> Reject, poor |-> Manual],
     [codes |-> << <<"4", "5", ".", "1", "1">>, <<"4", "5", ".", "1", "9">> >>,
      excellent |-> Num(-20), good |-> Num(-20), fair |-> Num(0), poor |-> Reject],
     [codes |-> << <<"4", "9", ".", "3", "2">> >>,
      excellent |-> Num(-20), good |-> Num(-20), fair |-> Num(0), poor |-> Reject],
     [codes |-> << <<"7", "7", ".", "1", "1">> >>,
      excellent |-> Num(-20), good |-> Num(-20), fair |-> Num(0), poor |-> Reject],
     [codes |-> << <<"5", "5">>, <<"5", "6">> >>,
      excellent |-> Num(-20), good |-> Num(-20), fair |-> Num(0), poor |-> Num(0)],
     [codes |-> << <<"9", "2">>, <<"9", "3">> >>,
      excellent |-> Reject, good |-> Reject, fair |-> Num(0), poor |-> Manual] >>

\* maxMonths is <<>> for Infinity
ageDeltas ==
  << [minMonths |-> 0, maxMonths |-> <<3>>,
      excellent |-> Reject, good |-> Reject, fair |-> Reject, poor |-> Num(0)],
     [minMonths |-> 3, maxMonths |-> <<6>>,
      excellent |-> Reject, good |-> Reject, fair |-> Reject, poor |-> Num(0)],
     [minMonths |-> 6, maxMonths |-> <<12>>,
      excellent |-> Reject, good |-> Reject, fair |-> Num(-30), poor |-> Num(0)],
     [minMonths |-> 12, maxMonths |-> <<24>>,
      excellent |-> Reject, good |-> Num(-20), fair |-> Num(-20), poor |-> Num(0)],
     [minMonths |-> 24, maxMonths |-> <<36>>,
      excellent |-> Num(-20), good |-> Num(-15), fair |-> Num(-10), poor |-> Num(0)],
     [minMonths |-> 36, maxMonths |-> <<48>>,
      excellent |-> Num(-15), good |-> Num(-15), fair |-> Num(0), poor |-> Num(0)],
     [minMonths |-> 48, maxMonths |-> <<60>>,
      excellent |-> Num(-5), good |-> Num(0), fair |-> Num(0), poor |-> Num(0)],
     [minMonths |-> 60, maxMonths |-> <<>>,
      excellent |-> Num(0), good |-> Num(0), fair |-> Num(0), poor |-> Num(0)] >>

(***************************************************************************)
(* services/score-calculation.  A DeltaResult keeps its source and delta;  *)
(* a duration in years is held as its number of months, so that            *)
(* companyAgeYears * 12 is the held number.                                *)
(***************************************************************************)
\* getTierKey: <<>> is null
getTierKey(tier) ==
  CASE tier = EXCELLENT -> <<"excellent">>
    [] tier = GOOD -> <<"good">>
    [] tier = FAIR -> <<"fair">>
    [] tier = POOR -> <<"poor">>
    [] OTHER -> <<>>

\* entry[tierKey]
OutcomeAt(entry, tierKey) ==
  CASE tierKey = "excellent" -> entry.excellent
    [] tierKey = "good" -> entry.good
    [] tierKey = "fair" -> entry.fair
    [] OTHER -> entry.poor

\* const tierValues = [entry.excellent, entry.good, entry.fair, entry.poor]
TierValues(entry) == <<entry.excellent, entry.good, entry.fair, entry.poor>>

\* mutation: only the column of the best tier is looked at
WorstNumeric_excellentOnly(values, i, worstDelta) ==
  IF values[1].kind = "number" /\ values[1].n < worstDelta THEN values[1].n ELSE worstDelta

\* for (const value of tierValues)
\*   if (typeof value === "number" && value < worstDelta) worstDelta = value
RECURSIVE WorstNumeric(_, _, _)
WorstNumeric(values, i, worstDelta) ==
  IF i > Len(values) THEN worstDelta
  ELSE WorstNumeric(values, i + 1,
         IF values[i].kind = "number" /\ values[i].n < worstDelta
         THEN values[i].n ELSE worstDelta)

DeltaResult(source, delta) == [source |-> source, delta |-> delta]

\* String.prototype.startsWith
startsWith(str, prefix) ==
  Len(prefix) <= Len(str) /\ SubSeq(str, 1, Len(prefix)) = prefix

Digits == {"0", "1", "2", "3", "4", "5", "6", "7", "8", "9"}

\* what \s matches among the characters of the model
Whitespace == {" "}

\* .replace(/\s+/g, "")
removeWhitespace(str) == SelectSeq(str, LAMBDA c : c \notin Whitespace)

\* .replace(/\D/g, "")
removeNonDigits(str) == SelectSeq(str, LAMBDA c : c \in Digits)

\* [...table].sort((a, b) => b.prefix.length - a.prefix.length): the sort is
\* stable, entries of one length keep their order
RECURSIVE sortByPrefixLength(_, _)
sortByPrefixLength(table, len) ==
  IF len < 0 THEN <<>>
  ELSE SelectSeq(table, LAMBDA e : Len(e.prefix) = len)
         \o sortByPrefixLength(table, len - 1)

LongestPrefix(table) ==
  CHOOSE n \in {Len(table[i].prefix) : i \in 1..Len(table)} :
    \A i \in 1..Len(table) : Len(table[i].prefix) <= n

sortedDeltas == sortByPrefixLength(postcodeDeltas, LongestPrefix(postcodeDeltas))

\* for (const entry of sortedDeltas) if (cleanCode.startsWith(entry.prefix)) return:
\* index of the first entry whose prefix starts cleanCode, 0 when the loop ends
RECURSIVE FirstPrefixMatch(_, _, _)
FirstPrefixMatch(cleanCode, table, i) ==
  IF i > Len(table) THEN 0
  ELSE IF startsWith(cleanCode, table[i].prefix) THEN i
  ELSE FirstPrefixMatch(cleanCode, table, i + 1)

\* the entries of a table in reverse order
Reversed(table) == [i \in 1..Len(table) |-> table[Len(table) + 1 - i]]

\* mutation: the shortest prefixes are tried first
getPostcodeDelta_shortestFirst(postalCode) ==
  IF postalCode = <<>> THEN DeltaResult("postcode", Num(0))
  ELSE LET cleanCode == trim(removeNonDigits(removeWhitespace(postalCode)))
           entry == FirstPrefixMatch(cleanCode, Reversed(sortedDeltas), 1)
       IN  IF cleanCode = <<>> \/ entry = 0 THEN DeltaResult("postcode", Num(0))
           ELSE DeltaResult("postcode", Num(Reversed(sortedDeltas)[entry].delta))

\* a null or empty postal code is <<>>
getPostcodeDelta(postalCode) ==
  IF postalCode = <<>> THEN DeltaResult("postcode", Num(0))
  ELSE LET cleanCode == trim(removeNonDigits(removeWhitespace(postalCode)))
           entry == FirstPrefixMatch(cleanCode, sortedDeltas, 1)
       IN  IF cleanCode = <<>> THEN DeltaResult("postcode", Num(0))
           ELSE IF entry # 0 THEN DeltaResult("postcode", Num(sortedDeltas[entry].delta))
           ELSE DeltaResult("postcode", Num(0))

\* cleanCode[2] is the third character, undefined when there is none
naceCodeMatches(code, patterns) ==
  LET cleanCode == removeWhitespace(code)
  IN  \E k \in 1..Len(patterns) :
        \/ cleanCode = patterns[k]
        \/ /\ Len(patterns[k]) = 2
           /\ startsWith(cleanCode, patterns[k])
           /\ \/ Len(cleanCode) = 2
              \/ (Len(cleanCode) >= 3 /\ cleanCode[3] = ".")
              \/ startsWith(cleanCode, patterns[k] \o <<".">>)

\* index of the first entry of naceDeltas that matches, 0 for null
findNaceEntry(naceCode) ==
  IF \E i \in 1..Len(naceDeltas) : naceCodeMatches(naceCode, naceDeltas[i].codes)
  THEN CHOOSE i \in 1..Len(naceDeltas) :
         /\ naceCodeMatches(naceCode, naceDeltas[i].codes)
         /\ \A j \in 1..(i - 1) : ~naceCodeMatches(naceCode, naceDeltas[j].codes)
  ELSE 0

\* the loop over naceCodes of getWorstNumericNaceDelta
RECURSIVE WorstNaceLoop(_, _, _)
WorstNaceLoop(naceCodes, i, worstDelta) ==
  IF i > Len(naceCodes) THEN worstDelta
  ELSE LET entry == findNaceEntry(naceCodes[i])
       IN  WorstNaceLoop(naceCodes, i + 1,
             IF entry = 0 THEN worstDelta
             ELSE WorstNumeric(TierValues(naceDeltas[entry]), 1, worstDelta))

\* matchedEntry is set exactly when worstDelta went below 0, so both returns
\* after the loop carry worstDelta
getWorstNumericNaceDelta(naceCodes) ==
  IF naceCodes = <<>> THEN DeltaResult("nace", Num(0))
  ELSE DeltaResult("nace", Num(WorstNaceLoop(naceCodes, 1, 0)))

\* the loop over naceCodes of getNaceOutcomeForTier; worst is <<>> while
\* worstOutcome is null, else <<[outcome, entry, code]>>
RECURSIVE NaceOutcomeLoop(_, _, _, _)
NaceOutcomeLoop(naceCodes, tierKey, i, worst) ==
  IF i > Len(naceCodes) THEN worst
  ELSE LET entry == findNaceEntry(naceCodes[i])
           outcome == OutcomeAt(naceDeltas[entry], tierKey)
           this == <<[outcome |-> outcome, entry |-> entry, code |-> naceCodes[i]]>>
       IN  NaceOutcomeLoop(naceCodes, tierKey, i + 1,
             IF entry = 0 THEN worst
             ELSE IF worst = <<>> THEN this
             ELSE IF outcome.kind = "reject" THEN this
             ELSE IF outcome.kind = "manual" /\ worst[1].outcome.kind # "reject" THEN this
             ELSE IF /\ outcome.kind = "number"
                     /\ worst[1].outcome.kind = "number"
                     /\ outcome.n < worst[1].outcome.n THEN this
             ELSE worst)

\* mutation: the outcome of the first matching code is returned
getNaceOutcomeForTier_firstMatch(naceCodes, tier) ==
  IF getTierKey(tier) = <<>> THEN <<>>
  ELSE IF \A i \in 1..Len(naceCodes) : findNaceEntry(naceCodes[i]) = 0 THEN <<>>
  ELSE LET first == CHOOSE i \in 1..Len(naceCodes) :
                      /\ findNaceEntry(naceCodes[i]) # 0
                      /\ \A j \in 1..(i - 1) : findNaceEntry(naceCodes[j]) = 0
           entry == findNaceEntry(naceCodes[first])
       IN  <<[outcome |-> OutcomeAt(naceDeltas[entry], getTierKey(tier)[1]),
              entry |-> entry, code |-> naceCodes[first]]>>

\* <<>> is null
getNaceOutcomeForTier(naceCodes, tier) ==
  IF naceCodes = <<>> THEN <<>>
  ELSE IF getTierKey(tier) = <<>> THEN <<>>
  ELSE NaceOutcomeLoop(naceCodes, getTierKey(tier)[1], 1, <<>>)

\* mutation: maxMonths is inclusive
findAgeBracket_inclusiveMax(ageMonths) ==
  LET Inside(i) == /\ ageMonths >= ageDeltas[i].minMonths
                   /\ \/ ageDeltas[i].maxMonths = <<>>
                      \/ ageMonths <= ageDeltas[i].maxMonths[1]
  IN  IF \E i \in 1..Len(ageDeltas) : Inside(i)
      THEN CHOOSE i \in 1..Len(ageDeltas) : Inside(i) /\ \A j \in 1..(i - 1) : ~Inside(j)
      ELSE 0

\* index of the first bracket with minMonths <= ageMonths < maxMonths, 0 for null
findAgeBracket(ageMonths) ==
  LET Inside(i) == /\ ageMonths >= ageDeltas[i].minMonths
                   /\ \/ ageDeltas[i].maxMonths = <<>>
                      \/ ageMonths < ageDeltas[i].maxMonths[1]
  IN  IF \E i \in 1..Len(ageDeltas) : Inside(i)
      THEN CHOOSE i \in 1..Len(ageDeltas) : Inside(i) /\ \A j \in 1..(i - 1) : ~Inside(j)
      ELSE 0

getWorstNumericAgeDelta(companyAgeYears) ==
  LET bracket == findAgeBracket(companyAgeYears)
  IN  IF bracket = 0 THEN DeltaResult("age", Num(0))
      ELSE DeltaResult("age", Num(WorstNumeric(TierValues(ageDeltas[bracket]), 1, 0)))

getAgeOutcomeForTier(companyAgeYears, tier) ==
  LET bracket == findAgeBracket(companyAgeYears)
  IN  IF bracket = 0 THEN <<>>
      ELSE IF getTierKey(tier) = <<>> THEN <<>>
      ELSE <<[outcome |-> OutcomeAt(ageDeltas[bracket], getTierKey(tier)[1]),
              bracket |-> bracket]>>

\* mutation: the floors are exclusive
determineTierFromScore_exclusive(adjustedScore) ==
  IF adjustedScore > tierThresholds[EXCELLENT].creditRatingMin THEN EXCELLENT
  ELSE IF adjustedScore > tierThresholds[GOOD].creditRatingMin THEN GOOD
  ELSE IF adjustedScore > tierThresholds[FAIR].creditRatingMin THEN FAIR
  ELSE IF adjustedScore > tierThresholds[POOR].creditRatingMin THEN POOR
  ELSE REJECTED

determineTierFromScore(adjustedScore) ==
  IF adjustedScore >= tierThresholds[EXCELLENT].creditRatingMin THEN EXCELLENT
  ELSE IF adjustedScore >= tierThresholds[GOOD].creditRatingMin THEN GOOD
  ELSE IF adjustedScore >= tierThresholds[FAIR].creditRatingMin THEN FAIR
  ELSE IF adjustedScore >= tierThresholds[POOR].creditRatingMin THEN POOR
  ELSE REJECTED

MathMax(a, b) == IF a >= b THEN a ELSE b

MathMin(a, b) == IF a <= b THEN a ELSE b

\* typeof delta === "number" ? delta : 0
NumericOf(delta) == IF delta.kind = "number" THEN delta.n ELSE 0

\* steps 6 to 9 of calculateAdjustedScore: the tier of the adjusted score, the
\* restrictions at that tier and the final tier
DetermineAndValidate(input, deltas, totalNumericDelta, adjustedScore) ==
  LET determinedTier == determineTierFromScore(adjustedScore)
      naceResult == getNaceOutcomeForTier(input.naceCodes, determinedTier)
      naceRestriction == IF naceResult = <<>> THEN <<>> ELSE <<naceResult[1].outcome>>
      ageResult == getAgeOutcomeForTier(input.companyAgeYears, determinedTier)
      ageRestriction == IF ageResult = <<>> THEN <<>> ELSE <<ageResult[1].outcome>>
      hasReject == naceRestriction = <<Reject>> \/ ageRestriction = <<Reject>>
      hasManualReview ==
        ~hasReject /\ (naceRestriction = <<Manual>> \/ ageRestriction = <<Manual>>)
      Pushed(restriction, source, outcome) ==
        IF restriction = <<outcome>> THEN <<DeltaResult(source, outcome)>> ELSE <<>>
  IN  IF determinedTier = REJECTED
      THEN [baseScore |-> input.creditRating, adjustedScore |-> adjustedScore,
            deltas |-> deltas, totalNumericDelta |-> totalNumericDelta,
            determinedTier |-> determinedTier,
            naceRestriction |-> <<>>, ageRestriction |-> <<>>,
            finalTier |-> REJECTED, hasReject |-> TRUE, hasManualReview |-> FALSE]
      ELSE [baseScore |-> input.creditRating, adjustedScore |-> adjustedScore,
            deltas |->
              IF hasReject
              THEN deltas \o Pushed(naceRestriction, "nace", Reject)
                          \o Pushed(ageRestriction, "age", Reject)
              ELSE IF hasManualReview
              THEN deltas \o Pushed(naceRestriction, "nace", Manual)
                          \o Pushed(ageRestriction, "age", Manual)
              ELSE deltas,
            totalNumericDelta |-> totalNumericDelta,
            determinedTier |-> determinedTier,
            naceRestriction |-> naceRestriction, ageRestriction |-> ageRestriction,
            finalTier |-> IF hasReject THEN REJECTED
                          ELSE IF hasManualReview THEN MANUAL_REVIEW
                          ELSE determinedTier,
            hasReject |-> hasReject, hasManualReview |-> hasManualReview]

\* const deltas = [postcodeDelta, naceDelta, ageDelta]
PhaseOneDeltas(input) ==
  << getPostcodeDelta(input.postalCode),
     getWorstNumericNaceDelta(input.naceCodes),
     getWorstNumericAgeDelta(input.companyAgeYears) >>

\* mutation: the sum of base score and deltas is not clamped
calculateAdjustedScore_unclamped(input) ==
  LET deltas == PhaseOneDeltas(input)
      totalNumericDelta ==
        NumericOf(deltas[1].delta) + NumericOf(deltas[2].delta) + NumericOf(deltas[3].delta)
  IN  DetermineAndValidate(input, deltas, totalNumericDelta,
                           input.creditRating + totalNumericDelta)

\* mutation: a "manual" restriction leaves the determined tier in place
calculateAdjustedScore_manualIgnored(input) ==
  LET deltas == PhaseOneDeltas(input)
      totalNumericDelta ==
        NumericOf(deltas[1].delta) + NumericOf(deltas[2].delta) + NumericOf(deltas[3].delta)
      adjustedScore == MathMax(0, MathMin(100, input.creditRating + totalNumericDelta))
      result == DetermineAndValidate(input, deltas, totalNumericDelta, adjustedScore)
  IN  [result EXCEPT !.finalTier = IF result.hasManualReview THEN result.determinedTier ELSE @]

calculateAdjustedScore(input) ==
  LET deltas == PhaseOneDeltas(input)
      totalNumericDelta ==
        NumericOf(deltas[1].delta) + NumericOf(deltas[2].delta) + NumericOf(deltas[3].delta)
      adjustedScore == MathMax(0, MathMin(100, input.creditRating + totalNumericDelta))
  IN  DetermineAndValidate(input, deltas, totalNumericDelta, adjustedScore)

(***************************************************************************)
(* The inputs calculateAdjustedScore is applied to.                        *)
(***************************************************************************)
\* base scores from ScoreMargin below 0 to ScoreMargin above 100, every fifth
\* value and the value just below it
BaseScores == {s \in (0 - ScoreMargin)..(100 + ScoreMargin) : s % 5 \in {0, 4}}

\* null, "1340", "1000", "7000", "B 6000"
PostalCodes ==
  { <<>>, <<"1", "3", "4", "0">>, <<"1", "0", "0", "0">>, <<"7", "0", "0", "0">>,
    <<"B", " ", "6", "0", "0", "0">> }

\* "46.72", "45.11", "55.10", "62.01"
NaceCodes ==
  { <<"4", "6", ".", "7", "2">>, <<"4", "5", ".", "1", "1">>,
    <<"5", "5", ".", "1", "0">>, <<"6", "2", ".", "0", "1">> }

\* company ages in months
CompanyAges == {0 - 1, 2, 6, 12, 30, 48, 60}

ScoreInputs ==
  [creditRating : BaseScores, postalCode : PostalCodes,
   naceCodes : SeqsUpTo(NaceCodes, MaxNaceCodes), companyAgeYears : CompanyAges]

NoScoreInput ==
  [creditRating |-> 0, postalCode |-> <<>>, naceCodes |-> <<>>, companyAgeYears |-> 0]

NoScore ==
  [baseScore |-> 0, adjustedScore |-> 0, deltas |-> <<>>, totalNumericDelta |-> 0,
   determinedTier |-> REJECTED, naceRestriction |-> <<>>, ageRestriction |-> <<>>,
   finalTier |-> REJECTED, hasReject |-> FALSE, hasManualReview |-> FALSE]

ScoreIdle ==
  /\ scorePc = "idle"
  /\ scoreIn = NoScoreInput
  /\ scoreOut = NoScore
  /\ scoreTier = <<>>

\* calculateAdjustedScore(input)
CalculateScore ==
  /\ scorePc = "call"
  /\ scoreOut' = calculateAdjustedScore(scoreIn)
  /\ scorePc' = "done"
  /\ UNCHANGED <<scoreIn, scoreTier, aggVars, reqVars, authVars, lookupVars, viesVars>>

\* determineTierFromScore applied to the base score as it came in
DetermineTier ==
  /\ scorePc # "idle"
  /\ scoreTier = <<>>
  /\ scoreTier' = <<determineTierFromScore(scoreIn.creditRating)>>
  /\ UNCHANGED <<scorePc, scoreIn, scoreOut, aggVars, reqVars, authVars, lookupVars, viesVars>>

(***************************************************************************)
(* The table lookups called on their own: getNaceOutcomeForTier,           *)
(* getPostcodeDelta and findAgeBracket.                                    *)
(***************************************************************************)
\* "46.72", "45.11", "55.10", "92", "62.01"
ListedNaceCodes ==
  { <<"4", "6", ".", "7", "2">>, <<"4", "5", ".", "1", "1">>,
    <<"5", "5", ".", "1", "0">>, <<"9", "2">>, <<"6", "2", ".", "0", "1">> }

\* null, "1340", "8300", "1000", "1080", "1050", "2000", "2100", "3000",
\* "7000", "13", "B-1340", " 13 40", "abc"
LookupPostalCodes ==
  { <<>>, <<"1", "3", "4", "0">>, <<"8", "3", "0", "0">>, <<"1", "0", "0", "0">>,
    <<"1", "0", "8", "0">>, <<"1", "0", "5", "0">>, <<"2", "0", "0", "0">>,
    <<"2", "1", "0", "0">>, <<"3", "0", "0", "0">>, <<"7", "0", "0", "0">>,
    <<"1", "3">>, <<"B", "-", "1", "3", "4", "0">>,
    <<" ", "1", "3", " ", "4", "0">>, <<"a", "b", "c">> }

NoLookup ==
  [fn |-> "none", naceCodes |-> <<>>, tier |-> REJECTED, postalCode |-> <<>>, ageMonths |-> 0]

LookupInputs ==
  {[NoLookup EXCEPT !.fn = "getNaceOutcomeForTier", !.naceCodes = codes, !.tier = t] :
     codes \in SeqsUpTo(ListedNaceCodes, MaxListed), t \in Tier}
  \cup {[NoLookup EXCEPT !.fn = "getPostcodeDelta", !.postalCode = code] :
          code \in LookupPostalCodes}
  \cup {[NoLookup EXCEPT !.fn = "findAgeBracket", !.ageMonths = m] :
          m \in (0 - 1)..MaxAgeMonths}
  \cup {[NoLookup EXCEPT !.fn = "getWorstNumericNaceDelta", !.naceCodes = codes] :
          codes \in SeqsUpTo(ListedNaceCodes, MaxListed)}
  \cup {[NoLookup EXCEPT !.fn = "getWorstNumericAgeDelta", !.ageMonths = m] :
          m \in (0 - 1)..MaxAgeMonths}

NoLookupResult ==
  [nace |-> <<>>, postcode |-> DeltaResult("postcode", Num(0)), bracket |-> 0,
   worstNace |-> DeltaResult("nace", Num(0)), worstAge |-> DeltaResult("age", Num(0))]

LookupIdle == lookupPc = "idle" /\ lookupIn = NoLookup /\ lookupOut = NoLookupResult

CallGetNaceOutcomeForTier ==
  /\ lookupPc = "call" /\ lookupIn.fn = "getNaceOutcomeForTier"
  /\ lookupOut' = [lookupOut EXCEPT
                     !.nace = getNaceOutcomeForTier(lookupIn.naceCodes, lookupIn.tier)]
  /\ lookupPc' = "done"
  /\ UNCHANGED <<lookupIn, aggVars, reqVars, authVars, scoreVars, viesVars>>

CallGetPostcodeDelta ==
  /\ lookupPc = "call" /\ lookupIn.fn = "getPostcodeDelta"
  /\ lookupOut' = [lookupOut EXCEPT !.postcode = getPostcodeDelta(lookupIn.postalCode)]
  /\ lookupPc' = "done"
  /\ UNCHANGED <<lookupIn, aggVars, reqVars, authVars, scoreVars, viesVars>>

CallFindAgeBracket ==
  /\ lookupPc = "call" /\ lookupIn.fn = "findAgeBracket"
  /\ lookupOut' = [lookupOut EXCEPT !.bracket = findAgeBracket(lookupIn.ageMonths)]
  /\ lookupPc' = "done"
  /\ UNCHANGED <<lookupIn, aggVars, reqVars, authVars, scoreVars, viesVars>>

CallGetWorstNumericNaceDelta ==
  /\ lookupPc = "call" /\ lookupIn.fn = "getWorstNumericNaceDelta"
  /\ lookupOut' = [lookupOut EXCEPT !.worstNace = getWorstNumericNaceDelta(lookupIn.naceCodes)]
  /\ lookupPc' = "done"
  /\ UNCHANGED <<lookupIn, aggVars, reqVars, authVars, scoreVars, viesVars>>

\* companyAgeYears * 12 is the number of months the model holds
CallGetWorstNumericAgeDelta ==
  /\ lookupPc = "call" /\ lookupIn.fn = "getWorstNumericAgeDelta"
  /\ lookupOut' = [lookupOut EXCEPT !.worstAge = getWorstNumericAgeDelta(lookupIn.ageMonths)]
  /\ lookupPc' = "done"
  /\ UNCHANGED <<lookupIn, aggVars, reqVars, authVars, scoreVars, viesVars>>

(***************************************************************************)
(* services/vies/client: validateVatNumber.  An error text is <<>> for     *)
(* undefined and <<text>> otherwise.                                       *)
(***************************************************************************)
\* mutation: one more retry
MAX_RETRIES_oneMore == 4 + 1

MAX_RETRIES == 4

INITIAL_DELAY_MS == 1000

MAX_DELAY_MS == 16000

RETRYABLE_ERRORS ==
  {"MS_MAX_CONCURRENT_REQ", "TIMEOUT", "SERVICE_UNAVAILABLE", "MS_UNAVAILABLE",
   "GLOBAL_MAX_CONCURRENT_REQ"}

\* String.prototype.toUpperCase on the texts of the model
textToUpperCase(text) ==
  CASE text = "ms_unavailable" -> "MS_UNAVAILABLE"
    [] text = "be" -> "BE"
    [] OTHER -> text

\* mutation: no error text is retryable
isRetryableError_never(errorMessage) == FALSE

\* errorMessage.toUpperCase().includes(err): none of the texts of the model
\* contains a retryable code without being that code
isRetryableError(errorMessage) ==
  IF errorMessage = <<>> THEN FALSE
  ELSE \E err \in RETRYABLE_ERRORS : textToUpperCase(errorMessage[1]) = err

\* mutation: the delay grows linearly
calculateBackoffDelay_linear(attempt, jitter) ==
  MathMin(INITIAL_DELAY_MS * (attempt + 1), MAX_DELAY_MS) + jitter

\* Math.random() * 500 lies in [0, 500); jitter is that value
calculateBackoffDelay(attempt, jitter) ==
  LET exponentialDelay == INITIAL_DELAY_MS * 2^attempt
      cappedDelay == MathMin(exponentialDelay, MAX_DELAY_MS)
  IN  cappedDelay + jitter

\* mutation: no status counts as a client error
IsClientError_none(status) == FALSE

\* response.status >= 400 && response.status < 500
IsClientError(status) == status >= 400 /\ status < 500

\* response.ok
IsOk(status) == status >= 200 /\ status <= 299

ViesFailure(text) == <<[valid |-> FALSE, companyName |-> <<>>, error |-> <<text>>]>>

Retry == [retry |-> TRUE, return |-> <<>>]

\* mutation: the userError text is passed on as it is
ResultError_asIs(userError) == userError

\* error: data.userError === "VALID" ? undefined : data.userError
ResultError(userError) == IF userError = <<"VALID">> THEN <<>> ELSE userError

Return(result) == [retry |-> FALSE, return |-> result]

\* one pass through the body of the for loop, given how the request ended:
\* either the loop continues after a delay or validateVatNumber returns
AttemptResult(outcome, attempt) ==
  CASE outcome.kind = "response" /\ ~IsOk(outcome.status) ->
         IF IsClientError(outcome.status) THEN Return(ViesFailure("VIES API returned status"))
         ELSE IF attempt < MAX_RETRIES THEN Retry
         ELSE Return(ViesFailure("VIES API returned status"))
    [] outcome.kind = "response" /\ IsOk(outcome.status) /\ outcome.parses ->
         IF outcome.userError # <<>> /\ isRetryableError(outcome.userError)
         THEN IF attempt < MAX_RETRIES THEN Retry
              ELSE Return(<<[valid |-> FALSE, companyName |-> <<>>,
                             error |-> outcome.userError]>>)
         ELSE Return(<<[valid |-> outcome.isValid, companyName |-> outcome.name,
                        error |-> ResultError(outcome.userError)]>>)
    [] outcome.kind = "abort" ->
         IF attempt < MAX_RETRIES THEN Retry ELSE Return(ViesFailure("VIES API timeout"))
    [] OTHER ->
         IF attempt < MAX_RETRIES THEN Retry ELSE Return(ViesFailure("VIES API error"))

\* how a request can end: the fetch is aborted by the timeout, the fetch rejects
\* for another reason, or a response arrives, whose body may fail to parse
NoOutcome ==
  [kind |-> "none", status |-> 0, parses |-> FALSE, isValid |-> FALSE,
   userError |-> <<>>, name |-> <<>>]

ViesStatuses == {304, 400, 404, 429, 500, 503}

ViesUserErrors ==
  { <<>>, <<"VALID">>, <<"INVALID_INPUT">>, <<"MS_MAX_CONCURRENT_REQ">>,
    <<"ms_unavailable">> }

ViesOutcomes ==
  { [NoOutcome EXCEPT !.kind = "abort"], [NoOutcome EXCEPT !.kind = "error"] }
  \cup {[NoOutcome EXCEPT !.kind = "response", !.status = st] : st \in ViesStatuses}
  \cup {[NoOutcome EXCEPT !.kind = "response", !.status = 200]}
  \cup {[NoOutcome EXCEPT !.kind = "response", !.status = 200, !.parses = TRUE,
                          !.isValid = v, !.userError = ue, !.name = CompanyName] :
          v \in BOOLEAN, ue \in ViesUserErrors}

\* the kind of ending of a request: timeout, other failure of the request or
\* of reading its body, 4xx, 5xx, another status that is not ok, a body with a
\* transient error code, any other body
Ending(outcome) ==
  CASE outcome.kind = "abort" -> "timeout"
    [] outcome.kind = "response" /\ outcome.status \in 400..499 -> "4xx"
    [] outcome.kind = "response" /\ outcome.status \in 500..599 -> "5xx"
    [] outcome.kind = "response" /\ outcome.status \notin 200..299 -> "other status"
    [] /\ outcome.kind = "response" /\ outcome.parses /\ outcome.userError # <<>>
       /\ textToUpperCase(outcome.userError[1]) \in RETRYABLE_ERRORS -> "transient code"
    [] outcome.kind = "response" /\ outcome.parses -> "answer"
    [] OTHER -> "error"

\* values of Math.random() * 500
Jitters == {0, 250, 499}

ViesCountries == {"BE", "be", "NL"}

ViesIdle ==
  /\ viesPc = "idle"
  /\ viesCountry = "BE"
  /\ viesAttempt = 0
  /\ viesRequests = 0
  /\ viesLast = NoOutcome
  /\ viesSeen = {}
  /\ viesDelay = <<>>
  /\ viesReturn = <<>>
  /\ viesEnrichment = NoEnrichment

\* the country check before the loop
ValidateVatNumber ==
  /\ viesPc = "call"
  /\ IF textToUpperCase(viesCountry) # "BE"
     THEN /\ viesReturn' = ViesFailure("Only Belgian VAT numbers supported")
          /\ viesPc' = "returned"
     ELSE /\ viesPc' = "fetch"
          /\ UNCHANGED viesReturn
  /\ UNCHANGED <<viesCountry, viesAttempt, viesRequests, viesLast, viesSeen, viesDelay,
                 viesEnrichment, aggVars, reqVars, authVars, scoreVars, lookupVars>>

\* one attempt: the request is sent and ends, and the loop body runs up to
\* its return or up to the start of the delay
ViesAttempt ==
  /\ viesPc = "fetch"
  /\ \E outcome \in ViesOutcomes, jitter \in Jitters :
       LET result == AttemptResult(outcome, viesAttempt)
       IN  /\ viesRequests' = viesRequests + 1
           /\ viesLast' = outcome
           /\ viesSeen' = viesSeen \cup {Ending(outcome)}
           /\ IF result.retry
              THEN /\ viesDelay' = <<calculateBackoffDelay(viesAttempt, jitter)>>
                   /\ viesPc' = "delay"
                   /\ UNCHANGED viesReturn
              ELSE /\ viesReturn' = result.return
                   /\ viesPc' = "returned"
                   /\ UNCHANGED viesDelay
  /\ UNCHANGED <<viesCountry, viesAttempt, viesEnrichment,
                 aggVars, reqVars, authVars, scoreVars, lookupVars>>

\* the delay is over: continue, attempt++
ViesDelayOver ==
  /\ viesPc = "delay"
  /\ viesAttempt' = viesAttempt + 1
  /\ viesDelay' = <<>>
  /\ viesPc' = "fetch"
  /\ UNCHANGED <<viesCountry, viesRequests, viesLast, viesSeen, viesReturn, viesEnrichment,
                 aggVars, reqVars, authVars, scoreVars, lookupVars>>

\* enrichData processes the fulfilled VIES result
EnrichDataProcessVies ==
  /\ viesPc = "returned"
  /\ viesEnrichment' = ProcessVies(NoEnrichment, [status |-> "fulfilled", value |-> viesReturn])
  /\ viesPc' = "processed"
  /\ UNCHANGED <<viesCountry, viesAttempt, viesRequests, viesLast, viesSeen, viesDelay, viesReturn,
                 aggVars, reqVars, authVars, scoreVars, lookupVars>>

vars == <<aggVars, reqVars, authVars, scoreVars, lookupVars, viesVars>>

InitAgg == aggPc = "call" /\ aggIn \in AggInputs /\ aggOut = NoAggregate
  /\ ReqIdle /\ AuthIdle /\ ScoreIdle /\ LookupIdle /\ ViesIdle

\* aggregateResults called on its own
AggregateList == Aggregate /\ UNCHANGED <<reqVars, authVars, scoreVars, lookupVars, viesVars>>

NextAgg == AggregateList

SpecAgg == InitAgg /\ [][NextAgg]_vars

\* the handler is entered with a validated body; the lookups will answer as the scenario says
Receive(sc) == request = RequestOf(sc) /\ world = WorldOf(sc)

Init ==
  /\ \E c \in Scenarios : Receive(Varied(Baseline, c))
  /\ pc = "enrichData"
  /\ creditsafeResult = NotCalled
  /\ viesResult = NotCalled
  /\ enrichment = NoEnrichment
  /\ ruleContext = <<>>
  /\ response = <<>>
  /\ kycRequest = <<>>
  /\ AggIdle
  /\ AuthIdle
  /\ ScoreIdle /\ LookupIdle /\ ViesIdle

Next ==
  \/ StartLookups
  \/ CreditsafeSettles
  \/ ViesSettles
  \/ ProcessLookups
  \/ KycSettles
  \/ BuildContext
  \/ EvaluateRules
  \/ AggregateRules
  \/ Respond

Spec == Init /\ [][Next]_vars

InitAuth == AuthIdle /\ AggIdle /\ ReqIdle /\ ScoreIdle /\ LookupIdle /\ ViesIdle

NextAuth ==
  \/ \E c \in Callers : AuthenticateCached(c)
  \/ \E c \in Callers : AuthenticateSend(c)
  \/ \E c \in Callers : AuthenticateOk(c)
  \/ \E c \in Callers : AuthenticateThrows(c)
  \/ Tick

SpecAuth == InitAuth /\ [][NextAuth]_vars

InitScore ==
  /\ scorePc = "call"
  /\ scoreIn \in ScoreInputs
  /\ scoreOut = NoScore
  /\ scoreTier = <<>>
  /\ AggIdle /\ ReqIdle /\ AuthIdle /\ LookupIdle /\ ViesIdle

NextScore ==
  \/ CalculateScore
  \/ DetermineTier

SpecScore == InitScore /\ [][NextScore]_vars

InitLookup ==
  /\ lookupPc = "call"
  /\ lookupIn \in LookupInputs
  /\ lookupOut = NoLookupResult
  /\ AggIdle /\ ReqIdle /\ AuthIdle /\ ScoreIdle /\ ViesIdle

NextLookup ==
  \/ CallGetNaceOutcomeForTier
  \/ CallGetPostcodeDelta
  \/ CallFindAgeBracket
  \/ CallGetWorstNumericNaceDelta
  \/ CallGetWorstNumericAgeDelta

SpecLookup == InitLookup /\ [][NextLookup]_vars

InitVies ==
  /\ viesPc = "call"
  /\ viesCountry \in ViesCountries
  /\ viesAttempt = 0
  /\ viesRequests = 0
  /\ viesLast = NoOutcome
  /\ viesSeen = {}
  /\ viesDelay = <<>>
  /\ viesReturn = <<>>
  /\ viesEnrichment = NoEnrichment
  /\ AggIdle /\ ReqIdle /\ AuthIdle /\ ScoreIdle /\ LookupIdle

NextVies ==
  \/ ValidateVatNumber
  \/ ViesAttempt
  \/ ViesDelayOver
  \/ EnrichDataProcessVies

SpecVies == InitVies /\ [][NextVies]_vars

(***************************************************************************)
(* Claims on aggregateResults (SpecAgg).                                   *)
(***************************************************************************)
\* C1: for every list of rule results holding at least one REJECTED result,
\* aggregateResults returns the final tier REJECTED, whatever else is in the list.
C1_RejectedWins ==
  (aggPc = "done" /\ REJECTED \in TiersIn(aggIn)) => aggOut.finalTier = REJECTED

\* a list with a MANUAL_REVIEW result ahead of the REJECTED one has been aggregated
C1_Witness ==
  /\ aggPc = "done"
  /\ Len(aggIn) >= 2
  /\ aggIn[1].tier = MANUAL_REVIEW
  /\ REJECTED \in TiersIn(aggIn)
  /\ aggOut.finalTier = REJECTED

\* C2: for every list with no REJECTED result and at least one MANUAL_REVIEW
\* result, aggregateResults returns the final tier MANUAL_REVIEW.
C2_ManualReviewNext ==
  (aggPc = "done" /\ REJECTED \notin TiersIn(aggIn) /\ MANUAL_REVIEW \in TiersIn(aggIn))
    => aggOut.finalTier = MANUAL_REVIEW

\* a list mixing MANUAL_REVIEW with qualifying tiers, none REJECTED, has been aggregated
C2_Witness ==
  /\ aggPc = "done"
  /\ REJECTED \notin TiersIn(aggIn)
  /\ MANUAL_REVIEW \in TiersIn(aggIn)
  /\ TiersIn(aggIn) \cap {POOR, FAIR, GOOD, EXCELLENT} # {}
  /\ aggOut.finalTier = MANUAL_REVIEW

\* C3: for every list with neither a REJECTED nor a MANUAL_REVIEW result the
\* final tier is the lowest-ordinal tier present, and for the empty list it is
\* EXCELLENT.
C3_WorstTierOtherwise ==
  (aggPc = "done" /\ TiersIn(aggIn) \cap {REJECTED, MANUAL_REVIEW} = {})
    => aggOut.finalTier = (IF aggIn = <<>> THEN EXCELLENT ELSE MinTier(TiersIn(aggIn)))

\* a list of qualifying tiers whose lowest tier is not its first has been aggregated
C3_Witness ==
  /\ aggPc = "done"
  /\ Len(aggIn) >= 3
  /\ TiersIn(aggIn) \cap {REJECTED, MANUAL_REVIEW} = {}
  /\ aggIn[1].tier = GOOD
  /\ MinTier(TiersIn(aggIn)) = POOR
  /\ aggOut.finalTier = POOR
  /\ aggOut.triggeringRule > 1

(***************************************************************************)
(* Claims on the request pipeline (Spec).                                  *)
(***************************************************************************)
\* the rules have been evaluated on the built context
Evaluated == pc \in {"aggregate", "responded"}

TierOf(id) == ResultOf(aggIn, id).tier

\* C4: enrichData never throws or rejects, whatever combination of success and
\* failure (exception, timeout, company not found, error response, unusable
\* payload) the bureau, VAT and screening lookups end in.
C4_EnrichDataNeverRejects == pc # "thrown"

\* C6: when the bureau lookup failed (creditsafeFailed) while the VAT and
\* screening lookups succeeded, the credit-rating, company-age and
\* admin-bankruptcies rules each return MANUAL_REVIEW, and the final tier is
\* MANUAL_REVIEW unless some rule rejects - in particular whenever the rules
\* that do not read bureau data all return EXCELLENT.
C6_BureauFailureIsManualReview ==
  (Evaluated /\ ruleContext[1].creditsafeFailed
     /\ ~ruleContext[1].viesFailed /\ ~ruleContext[1].kycProtectFailed)
    => /\ TierOf("credit-rating") = MANUAL_REVIEW
       /\ TierOf("company-age") = MANUAL_REVIEW
       /\ TierOf("admin-bankruptcies") = MANUAL_REVIEW
       /\ (pc = "responded" /\ REJECTED \notin TiersIn(aggIn))
            => response[1].tier = MANUAL_REVIEW

BureauRules == {"credit-rating", "company-age", "admin-bankruptcies", "company-active"}

\* the bureau lookup failed, VAT validation and screening succeeded, every rule
\* that does not read bureau data returned EXCELLENT, and the answer is MANUAL_REVIEW
C6_Witness ==
  /\ pc = "responded"
  /\ ruleContext[1].creditsafeFailed
  /\ ruleContext[1].vies # <<>> /\ ~ruleContext[1].viesFailed
  /\ ruleContext[1].kycProtect # <<>> /\ ~ruleContext[1].kycProtectFailed
  /\ \A i \in 1..Len(aggIn) :
       aggIn[i].ruleId \notin BureauRules => aggIn[i].tier = EXCELLENT
  /\ response[1].tier = MANUAL_REVIEW

\* the tier the allowedLegalForms lists give a legal form
LegalFormTier(legalForm) ==
  IF legalForm \in {"BV", "VOF", "CommV"} THEN EXCELLENT
  ELSE IF legalForm = "NV" THEN EXCELLENT
  ELSE IF legalForm \in {"CV", "VZW", "Eenmanszaak"} THEN POOR
  ELSE REJECTED

\* C7 (as amended): a registered rule that reads bureau, VAT or screening data
\* returns MANUAL_REVIEW when its lookup failed or left no data - credit-rating,
\* company-age, company-active and admin-bankruptcies without bureau data,
\* vat-valid without a usable VAT result, blocklist when screening failed.  The
\* exceptions are fraud-score (EXCELLENT without a score), legal-form (grades
\* the request's own legal form without bureau data) and blocklist when
\* screening was skipped for want of a company name (EXCELLENT).
C7_MissingSourceHandling ==
  Evaluated =>
    LET ctx == ruleContext[1]
    IN  /\ ctx.creditsafe = <<>> =>
             /\ TierOf("credit-rating") = MANUAL_REVIEW
             /\ TierOf("company-age") = MANUAL_REVIEW
             /\ TierOf("company-active") = MANUAL_REVIEW
             /\ TierOf("admin-bankruptcies") = MANUAL_REVIEW
             /\ TierOf("fraud-score") = EXCELLENT
             /\ TierOf("legal-form") = LegalFormTier(request.company.legalForm)
        /\ (ctx.creditsafe # <<>> /\ ctx.creditsafe[1].fraudScore = <<>>) =>
             TierOf("fraud-score") = EXCELLENT
        /\ (ctx.vies = <<>> \/ ctx.viesFailed) => TierOf("vat-valid") = MANUAL_REVIEW
        /\ ctx.kycProtectFailed => TierOf("blocklist") = MANUAL_REVIEW
        /\ (ctx.kycProtect = <<>> /\ ~ctx.kycProtectFailed) => TierOf("blocklist") = EXCELLENT

\* rules evaluated with no bureau data, a failed VAT lookup and a failed screening
C7_Witness ==
  /\ Evaluated
  /\ ruleContext[1].creditsafe = <<>>
  /\ ruleContext[1].kycProtectFailed
  /\ TierOf("credit-rating") = MANUAL_REVIEW
  /\ TierOf("blocklist") = MANUAL_REVIEW
  /\ TierOf("fraud-score") = EXCELLENT

\* C7 as stated: every registered rule that depends on a lookup, fraud-score
\* alone excepted, returns MANUAL_REVIEW whenever that lookup failed or its data
\* is absent.
C7_OnlyFraudScoreExcepted ==
  Evaluated =>
    LET ctx == ruleContext[1]
    IN  /\ (ctx.creditsafeFailed \/ ctx.creditsafe = <<>>) =>
             \A id \in {"credit-rating", "company-age", "company-active",
                        "admin-bankruptcies", "legal-form"} : TierOf(id) = MANUAL_REVIEW
        /\ (ctx.viesFailed \/ ctx.vies = <<>>) => TierOf("vat-valid") = MANUAL_REVIEW
        /\ (ctx.kycProtectFailed \/ ctx.kycProtect = <<>>) => TierOf("blocklist") = MANUAL_REVIEW

\* the contact has not reached the 18th birthday on Today
Under18(dateOfBirth) ==
  \/ dateOfBirth.year + 18 > Today.year
  \/ /\ dateOfBirth.year + 18 = Today.year
     /\ \/ dateOfBirth.month > Today.month
        \/ dateOfBirth.month = Today.month /\ dateOfBirth.day > Today.day

\* screening ran and kept a hit carrying the enforcement dataset
CountedEnforcementHit ==
  /\ enrichment.kycProtect # <<>>
  /\ \E i \in 1..Len(enrichment.kycProtect[1].hits) :
       "ENF" \in enrichment.kycProtect[1].hits[i].datasets

HardEligibilityFails ==
  \/ ~request.questionnaire.contact.belgiumResident
  \/ Under18(request.questionnaire.contact.dateOfBirth)
  \/ ~request.questionnaire.contact.isAdministrator
  \/ CountedEnforcementHit

C5_SingleAuthenticationInFlight ==
  Cardinality({c \in Callers : authCall[c].at = "fetch"}) <= 1
(***************************************************************************)
(* Claims on the score calculation (SpecScore).                            *)
(***************************************************************************)
\* a sum brought back into 0..100
Clamped(sum) == IF sum < 0 THEN 0 ELSE IF sum > 100 THEN 100 ELSE sum

\* C9: calculateAdjustedScore returns adjustedScore = max(0, min(100, baseScore +
\* totalNumericDelta)), where totalNumericDelta adds up the numeric postcode,
\* NACE and age deltas; so the adjusted score lies in 0..100 also when the sum
\* falls below 0 or above 100.
C9_AdjustedScoreClamped ==
  scorePc = "done" =>
    /\ scoreOut.baseScore = scoreIn.creditRating
    /\ scoreOut.totalNumericDelta =
         NumericOf(scoreOut.deltas[1].delta) + NumericOf(scoreOut.deltas[2].delta)
           + NumericOf(scoreOut.deltas[3].delta)
    /\ scoreOut.adjustedScore = Clamped(scoreOut.baseScore + scoreOut.totalNumericDelta)
    /\ scoreOut.adjustedScore \in 0..100

\* a base score inside 0..100 was pulled below 0 by its deltas and came out as 0
C9_Witness ==
  /\ scorePc = "done"
  /\ scoreOut.baseScore \in 0..100
  /\ scoreOut.baseScore + scoreOut.totalNumericDelta < 0
  /\ scoreOut.adjustedScore = 0

CreditFloor(t) == tierThresholds[t].creditRatingMin

\* the best of EXCELLENT, GOOD, FAIR, POOR whose credit floor the score reaches
BestTierFor(score) ==
  LET reached == {t \in TierSet(FunnelTiers) : CreditFloor(t) <= score}
  IN  IF reached = {} THEN REJECTED
      ELSE CHOOSE t \in reached : \A u \in reached : u <= t

\* C10: determinedTier is the best tier among EXCELLENT, GOOD, FAIR, POOR whose
\* credit floor is at most the adjusted score; a score below the POOR floor
\* gives REJECTED, and the result then is REJECTED with both restriction
\* fields null.  determineTierFromScore is also checked on base scores below
\* the POOR floor, which the clamped adjusted score never is.
C10_DeterminedTierIsBestReached ==
  /\ scorePc = "done" =>
       /\ scoreOut.determinedTier = BestTierFor(scoreOut.adjustedScore)
       /\ scoreOut.adjustedScore < CreditFloor(POOR) =>
            /\ scoreOut.finalTier = REJECTED
            /\ scoreOut.naceRestriction = <<>>
            /\ scoreOut.ageRestriction = <<>>
  /\ scoreTier # <<>> => scoreTier[1] = BestTierFor(scoreIn.creditRating)

\* adjusted score 50 with floors 70/55/35/0 gave FAIR, and with no restriction
\* at that tier the final tier is FAIR
C10_Witness ==
  /\ scorePc = "done"
  /\ scoreOut.adjustedScore = 50
  /\ scoreOut.determinedTier = FAIR
  /\ scoreOut.finalTier = FAIR
\* the outcome a restriction field holds: "none" for null
KindOf(restriction) == IF restriction = <<>> THEN "none" ELSE restriction[1].kind

\* C11: when a tier was determined from the score, finalTier is REJECTED if the
\* NACE outcome or the age outcome at the determined tier is "reject", else
\* MANUAL_REVIEW if either is "manual", else the determined tier; the two
\* restriction fields are the outcomes looked up at the determined tier.
C11_RestrictionPrecedence ==
  (scorePc = "done" /\ scoreOut.determinedTier # REJECTED) =>
    LET nace == getNaceOutcomeForTier(scoreIn.naceCodes, scoreOut.determinedTier)
        age == getAgeOutcomeForTier(scoreIn.companyAgeYears, scoreOut.determinedTier)
        kinds == {KindOf(scoreOut.naceRestriction), KindOf(scoreOut.ageRestriction)}
    IN  /\ scoreOut.naceRestriction = IF nace = <<>> THEN <<>> ELSE <<nace[1].outcome>>
        /\ scoreOut.ageRestriction = IF age = <<>> THEN <<>> ELSE <<age[1].outcome>>
        /\ scoreOut.finalTier =
             IF "reject" \in kinds THEN REJECTED
             ELSE IF "manual" \in kinds THEN MANUAL_REVIEW
             ELSE scoreOut.determinedTier
        /\ scoreOut.hasReject = ("reject" \in kinds)
        /\ scoreOut.hasManualReview = ("reject" \notin kinds /\ "manual" \in kinds)

\* a company whose score gave POOR has a NACE code that asks for manual review
\* at POOR and no rejecting outcome: the final tier is MANUAL_REVIEW
C11_Witness ==
  /\ scorePc = "done"
  /\ scoreOut.determinedTier = POOR
  /\ scoreOut.naceRestriction = <<Manual>>
  /\ scoreOut.ageRestriction = <<Num(0)>>
  /\ scoreOut.finalTier = MANUAL_REVIEW
(***************************************************************************)
(* Claims on the table lookups (SpecLookup).                               *)
(***************************************************************************)
\* getNaceOutcomeForTier has returned for a tier that has a column in the table
NaceOutcomeReturned ==
  /\ lookupPc = "done"
  /\ lookupIn.fn = "getNaceOutcomeForTier"
  /\ getTierKey(lookupIn.tier) # <<>>

\* the outcome the i-th listed code has at the target tier; only for matching codes
ListedOutcome(i) ==
  OutcomeAt(naceDeltas[findNaceEntry(lookupIn.naceCodes[i])], getTierKey(lookupIn.tier)[1])

MatchingListed == {i \in 1..Len(lookupIn.naceCodes) : findNaceEntry(lookupIn.naceCodes[i]) # 0}

\* C12: whatever codes are listed and in whatever order, getNaceOutcomeForTier
\* returns "reject" as soon as one matching code yields "reject" at the target
\* tier, and returns "manual" exactly when some matching code yields "manual"
\* and none yields "reject"; it returns null exactly when no code matches.
C12_RejectBeatsManual ==
  NaceOutcomeReturned =>
    LET kinds == {ListedOutcome(i).kind : i \in MatchingListed}
    IN  /\ "reject" \in kinds => lookupOut.nace # <<>> /\ lookupOut.nace[1].outcome = Reject
        /\ (lookupOut.nace # <<>> /\ lookupOut.nace[1].outcome = Manual)
             <=> ("manual" \in kinds /\ "reject" \notin kinds)
        /\ lookupOut.nace = <<>> <=> kinds = {}

\* a code yielding "manual" is listed before one yielding "reject" at the target
\* tier, and "reject" came back
C12_Witness ==
  /\ NaceOutcomeReturned
  /\ \E i, j \in MatchingListed :
       i < j /\ ListedOutcome(i) = Manual /\ ListedOutcome(j) = Reject
  /\ lookupOut.nace[1].outcome = Reject
PostcodeDeltaReturned == lookupPc = "done" /\ lookupIn.fn = "getPostcodeDelta"

\* the table entries whose prefix starts the digits of the postal code
MatchingPrefixes ==
  {i \in 1..Len(postcodeDeltas) :
     startsWith(removeNonDigits(lookupIn.postalCode), postcodeDeltas[i].prefix)}

\* C13: getPostcodeDelta returns the delta of the longest table prefix that
\* starts the digits-only postal code - of two matching prefixes the longer
\* wins - and 0 when no table prefix matches.
C13_LongestPrefixWins ==
  PostcodeDeltaReturned =>
    IF MatchingPrefixes = {} THEN lookupOut.postcode.delta = Num(0)
    ELSE \E i \in MatchingPrefixes :
           /\ \A j \in MatchingPrefixes :
                Len(postcodeDeltas[j].prefix) <= Len(postcodeDeltas[i].prefix)
           /\ lookupOut.postcode.delta = Num(postcodeDeltas[i].delta)

\* two table prefixes with different deltas start the postal code, and the
\* delta of the longer one came back
C13_Witness ==
  /\ PostcodeDeltaReturned
  /\ \E i, j \in MatchingPrefixes :
       /\ Len(postcodeDeltas[j].prefix) < Len(postcodeDeltas[i].prefix)
       /\ postcodeDeltas[j].delta # postcodeDeltas[i].delta
       /\ lookupOut.postcode.delta = Num(postcodeDeltas[i].delta)
AgeBracketReturned == lookupPc = "done" /\ lookupIn.fn = "findAgeBracket"

\* the brackets whose range [minMonths, maxMonths) holds the age
BracketsHolding ==
  {i \in 1..Len(ageDeltas) :
     /\ ageDeltas[i].minMonths <= lookupIn.ageMonths
     /\ \/ ageDeltas[i].maxMonths = <<>>
        \/ lookupIn.ageMonths < ageDeltas[i].maxMonths[1]}

\* C14: the age brackets are half-open and contiguous from 0: an age of 0
\* months or more lies in exactly one bracket, which findAgeBracket returns,
\* and an age equal to a bracket's maxMonths is matched by the next bracket,
\* which starts at that age.
C14_AgeBracketsPartition ==
  (AgeBracketReturned /\ lookupIn.ageMonths >= 0) =>
    /\ Cardinality(BracketsHolding) = 1
    /\ lookupOut.bracket \in BracketsHolding
    /\ \A i \in 1..Len(ageDeltas) :
         ageDeltas[i].maxMonths = <<lookupIn.ageMonths>> =>
           /\ lookupOut.bracket = i + 1
           /\ ageDeltas[i + 1].minMonths = lookupIn.ageMonths

\* an age of exactly 12 months, the maxMonths of the 6-12m bracket, was matched
\* by the 12-24m bracket
C14_Witness ==
  /\ AgeBracketReturned
  /\ lookupIn.ageMonths = 12
  /\ ageDeltas[3].maxMonths = <<12>>
  /\ lookupOut.bracket = 4
(***************************************************************************)
(* Claims on validateVatNumber (SpecVies).                                 *)
(***************************************************************************)
ViesReturned == viesPc \in {"returned", "processed"}

\* validateVatNumber returned a failure result
ViesFailed == ViesReturned /\ ~viesReturn[1].valid /\ viesReturn[1].error # <<>>

\* C15: validateVatNumber sends at most 5 requests per call whatever the
\* requests end in; when the fifth request ends in a 5xx status, as when every
\* attempt did, the call stops there and returns a failure result.
C15_AtMostFiveRequests ==
  /\ viesRequests <= 5
  /\ (viesRequests = 5 /\ Ending(viesLast) = "5xx") => ViesFailed
  /\ (viesRequests < 5 /\ Ending(viesLast) = "5xx") => viesPc \in {"delay", "fetch"}

\* all five requests ended in a 5xx status and the call returned a failure
C15_Witness ==
  /\ viesRequests = 5
  /\ viesSeen = {"5xx"}
  /\ ViesFailed

\* C16: when a request ends in a 4xx status the call returns a failure result
\* at once, on whichever attempt: no delay is started and no further request
\* is sent.
C16_ClientErrorReturnsAtOnce ==
  Ending(viesLast) = "4xx" =>
    /\ ViesFailed
    /\ viesDelay = <<>>
    /\ viesRequests = viesAttempt + 1

\* the third request, after two retried ones, ended in a 4xx status and the
\* call returned a failure
C16_Witness ==
  /\ Ending(viesLast) = "4xx"
  /\ viesAttempt = 2
  /\ viesRequests = 3
  /\ ViesFailed
\* the endings of a request after which the loop goes on while attempts are left
RetriedEndings == {"timeout", "5xx", "transient code", "error", "other status"}

\* C17 (as amended): validateVatNumber performs another attempt, while fewer
\* than five have been made, after a request timeout, a 5xx status or a 2xx
\* body carrying a known transient error code, and also after any other
\* failure of the request (a network error, an unreadable body) and after a
\* status that is neither 2xx nor 4xx; a 4xx status and every other 2xx body
\* end the call without a retry.
C17_RetryTriggers ==
  /\ viesPc = "delay" =>
       Ending(viesLast) \in RetriedEndings /\ viesAttempt < MAX_RETRIES
  /\ (ViesReturned /\ viesRequests > 0) =>
       Ending(viesLast) \notin RetriedEndings \/ viesAttempt = MAX_RETRIES

\* a 2xx body carrying a transient error code is followed by a delay
C17_Witness ==
  /\ viesPc = "delay"
  /\ Ending(viesLast) = "transient code"
  /\ viesRequests = 1

\* C17 as stated: another attempt follows only a timeout, a 5xx status or a
\* 2xx body carrying a known transient error code.
C17_OnlyListedTriggers ==
  viesPc = "delay" => Ending(viesLast) \in {"timeout", "5xx", "transient code"}

\* C18: a response whose error field carries "VALID" is not treated as an
\* error: validateVatNumber returns it at once with no error set, and
\* enrichData then neither sets viesFailed nor appends to errors.
C18_ValidSentinelIsNoError ==
  (viesLast.kind = "response" /\ viesLast.parses /\ viesLast.userError = <<"VALID">>) =>
    /\ ViesReturned
    /\ viesRequests = viesAttempt + 1
    /\ viesReturn[1].valid = viesLast.isValid
    /\ viesReturn[1].error = <<>>
    /\ viesPc = "processed" =>
         /\ viesEnrichment.vies = viesReturn
         /\ ~viesEnrichment.viesFailed
         /\ viesEnrichment.errors = <<>>

\* the registry answered a valid number with "VALID" in the error field, and
\* enrichData took the result without a failure flag
C18_Witness ==
  /\ viesPc = "processed"
  /\ viesLast.userError = <<"VALID">>
  /\ viesLast.isValid
  /\ viesEnrichment.vies = viesReturn
  /\ ~viesEnrichment.viesFailed

\* C19: the delay before the retry that follows attempt k is at least
\* min(1000 * 2^k, 16000) ms and less than that plus 500 ms.
C19_BackoffDelayRange ==
  viesPc = "delay" =>
    LET doubled == 1000 * 2^viesAttempt
        floor == IF doubled < 16000 THEN doubled ELSE 16000
    IN  viesDelay[1] >= floor /\ viesDelay[1] < floor + 500

\* before the retry after attempt 3 the delay is 8000 ms plus the largest jitter
C19_Witness ==
  /\ viesPc = "delay"
  /\ viesAttempt = 3
  /\ viesDelay = <<8499>>
(***************************************************************************)
(* Claims on the join of the lookups (Spec).                               *)
(***************************************************************************)
\* enrichData has moved past Promise.allSettled
PastJoin == pc \notin {"idle", "enrichData", "allSettled"}

Settled(result) == result.status \in {"fulfilled", "rejected"}

\* C20: the bureau lookup and the VAT lookup are started together and
\* enrichData goes on only when both have settled; a failure of one sets that
\* source's failure flag only, and the result of the other lookup is kept.
C20_LookupsJoinIndependently ==
  /\ pc = "allSettled" => creditsafeResult # NotCalled /\ viesResult # NotCalled
  /\ PastJoin =>
       /\ Settled(creditsafeResult) /\ Settled(viesResult)
       /\ viesResult.status = "fulfilled" => enrichment.vies = viesResult.value
       /\ viesResult.status = "rejected" => enrichment.viesFailed /\ enrichment.vies = <<>>
       /\ (creditsafeResult.status = "fulfilled" /\ creditsafeResult.value # <<>>) =>
            enrichment.creditsafe # <<>> /\ ~enrichment.creditsafeFailed
       /\ (creditsafeResult.status = "rejected" \/ creditsafeResult.value = <<>>) =>
            enrichment.creditsafeFailed /\ enrichment.creditsafe = <<>>
       /\ enrichment.viesFailed <=>
            \/ viesResult.status = "rejected"
            \/ viesResult.value[1].error \notin {<<>>, <<"VALID">>}
(***************************************************************************)
(* Claims on the screening request (Spec).                                 *)
(***************************************************************************)
\* the name the bureau reported, <<>> when the bureau gave no usable report
BureauName ==
  IF creditsafeResult.status = "fulfilled" /\ creditsafeResult.value # <<>>
  THEN IF creditsafeResult.value[1].businessName # <<>>
       THEN creditsafeResult.value[1].businessName
       ELSE creditsafeResult.value[1].registeredCompanyName
  ELSE <<>>

\* the name the VAT registry returned, <<>> when it returned none
RegistryName ==
  IF viesResult.status = "fulfilled" THEN viesResult.value[1].companyName ELSE <<>>

\* C21: the screening request is sent only after both lookups have settled and
\* only with a company name, the bureau's when it has one and the VAT
\* registry's otherwise; with no name nothing is sent and kycProtectFailed
\* stays false.
C21_ScreeningNeedsName ==
  /\ kycRequest # <<>> =>
       /\ Settled(creditsafeResult) /\ Settled(viesResult)
       /\ kycRequest[1] # <<>>
       /\ kycRequest[1] = IF BureauName # <<>> THEN BureauName ELSE RegistryName
  /\ (PastJoin /\ pc # "thrown" /\ BureauName = <<>> /\ RegistryName = <<>>) =>
       /\ kycRequest = <<>>
       /\ enrichment.kycProtect = <<>>
       /\ ~enrichment.kycProtectFailed
  /\ (PastJoin /\ pc # "thrown" /\ (BureauName # <<>> \/ RegistryName # <<>>)) =>
       kycRequest # <<>>

\* the bureau's report carried no name and the request went out with the
\* registry's
C21_Witness ==
  /\ pc = "responded"
  /\ BureauName = <<>>
  /\ creditsafeResult.status = "fulfilled" /\ creditsafeResult.value # <<>>
  /\ kycRequest = <<RegistryName>>
  /\ RegistryName # <<>>
(***************************************************************************)
(* Claims on the token cache (SpecAuth).                                   *)
(***************************************************************************)
\* caller c enters authenticate() in this step
Enters(c) == authCall[c].at = "idle" /\ authCall'[c] # authCall[c]

\* C22: a successful authentication caches its token for 55 minutes; a call of
\* authenticate() made while a token is cached and those 55 minutes have not
\* passed returns the cached token and sends no request, and a call made once
\* they have passed sends a new authentication request.
C22_CachedTokenUsedUntilExpiry ==
  [][/\ cachedToken' # cachedToken => tokenExpiresAt' = now + 55
     /\ tokenExpiresAt' # tokenExpiresAt => cachedToken' # <<>>
     /\ \A c \in Callers :
          Enters(c) =>
            IF cachedToken # <<>> /\ now < tokenExpiresAt
            THEN /\ authCall'[c] = [at |-> "idle", outcome |-> "cached",
                                    token |-> cachedToken[1]]
                 /\ authRequests' = authRequests
            ELSE /\ authCall'[c].at = "fetch"
                 /\ authRequests' = authRequests + 1]_vars

\* a token was cached, a later call returned it, and a call made after its
\* expiry has a new request on its way
C22_Witness ==
  /\ cachedToken # <<>>
  /\ now >= tokenExpiresAt
  /\ \E c, d \in Callers :
       /\ authCall[c] = [at |-> "idle", outcome |-> "cached", token |-> cachedToken[1]]
       /\ authCall[d].at = "fetch"
       /\ authCall[d].token > cachedToken[1]
(***************************************************************************)
(* Claims on the financial terms of a decision (Spec).                     *)
(***************************************************************************)
ConcreteTiers == {EXCELLENT, GOOD, FAIR, POOR}

\* C23: a decision carries financial terms exactly when its final tier is
\* EXCELLENT, GOOD, FAIR or POOR, and then they are the terms configured for
\* that tier; a REJECTED or MANUAL_REVIEW decision carries none.
C23_TermsIffConcreteTier ==
  pc = "responded" =>
    /\ response[1].financialTerms # <<>> <=> response[1].tier \in ConcreteTiers
    /\ response[1].tier \in ConcreteTiers =>
         response[1].financialTerms = <<tierThresholds[response[1].tier].financialTerms>>
    /\ response[1].tier \in {REJECTED, MANUAL_REVIEW} => response[1].financialTerms = <<>>

\* a manual-review decision went out without terms
C23_Witness ==
  /\ pc = "responded"
  /\ response[1].tier = MANUAL_REVIEW
  /\ response[1].financialTerms = <<>>
(***************************************************************************)
(* Claims on the legal-history answers (Spec).                             *)
(***************************************************************************)
\* the applicant reports one of the three soft triggers
ReportsLegalHistory ==
  \/ contactWithLegalAuthoritiesRule(ruleContext[1]).tier = MANUAL_REVIEW
  \/ troubleWithPaymentRule(ruleContext[1]).tier = MANUAL_REVIEW
  \/ blacklistedBanksRule(ruleContext[1]).tier = MANUAL_REVIEW

\* C24: when the applicant reports contact with legal authorities, payment
\* trouble at a financing company or a blacklisted bank, the final tier is
\* MANUAL_REVIEW, or REJECTED when some rule rejects; never a concrete tier.
C24_LegalHistoryNeedsReview ==
  (pc = "responded" /\ ReportsLegalHistory) =>
    /\ response[1].tier \in {MANUAL_REVIEW, REJECTED}
    /\ response[1].tier = REJECTED <=> \E i \in 1..Len(aggIn) : aggIn[i].tier = REJECTED
(***************************************************************************)
(* Claims on the insurance checks (Spec).                                  *)
(***************************************************************************)
InsuranceRules ==
  {"driver-age", "license-duration", "accidents-at-fault", "accidents-not-at-fault",
   "vehicle-horsepower"}

\* the tiers the rules other than the insurance checks returned
OtherTiers == {aggIn[i].tier : i \in {j \in 1..Len(aggIn) : aggIn[j].ruleId \notin InsuranceRules}}

\* C25: the insurance checks bear on applicants headed for POOR only: when
\* every other rule returns EXCELLENT, GOOD or FAIR, the final tier is the
\* worst of those tiers, whatever the insurance answers are.
C25_InsuranceOnlyForPoor ==
  (pc = "responded" /\ OtherTiers \subseteq {EXCELLENT, GOOD, FAIR}) =>
    response[1].tier = MinTier(OtherTiers)
(***************************************************************************)
(* Claims on the vehicle value (Spec).                                     *)
(***************************************************************************)
\* C26: the minimum vehicle value is enforced for the tier of the decision: a
\* POOR decision needs a vehicle worth at least 20,000 and an EXCELLENT, GOOD
\* or FAIR decision one worth at least 10,000.
C26_MinimumVehicleValuePerTier ==
  (pc = "responded" /\ response[1].tier \in ConcreteTiers) =>
    request.questionnaire.vehicle.value >= tierThresholds[response[1].tier].minVehicleValue
(***************************************************************************)
(* Claims on the tier query parameter (Spec).                              *)
(***************************************************************************)
\* C27: a request carrying the query parameter tier=X is answered with
\* success and result tier X, whatever its body and whatever the rules yield.
C27_TierOverride ==
  request.query.tier # <<>> =>
    /\ pc # "thrown"
    /\ pc = "responded" => tierToString(response[1].tier) = request.query.tier[1]
(***************************************************************************)
(* Claims on the score calculation inside a request (Spec).                *)
(***************************************************************************)
\* what the mapped bureau data offers calculateAdjustedScore: CreditsafeData
\* carries the score and the age, no postal code and no industry codes
BureauScoreInput ==
  [creditRating |-> ruleContext[1].creditsafe[1].creditRating,
   postalCode |-> <<>>,
   naceCodes |-> <<>>,
   companyAgeYears |-> ruleContext[1].creditsafe[1].companyAgeYears]

\* C28: when bureau data is available the rule context carries the score
\* calculation before the rules run, so the final tier of the decision is never
\* better than the finalTier calculateAdjustedScore gives for the company.
C28_ScoreCalculationFoldedIn ==
  (pc \in {"evaluate", "aggregate", "responded"} /\ ruleContext[1].creditsafe # <<>>) =>
    /\ ruleContext[1].scoreCalculation # <<>>
    /\ pc = "responded" =>
         response[1].tier <= calculateAdjustedScore(BureauScoreInput).finalTier
(***************************************************************************)
(* Claims on the numeric industry and age deltas (SpecLookup).             *)
(***************************************************************************)
TierColumns == {"excellent", "good", "fair", "poor"}

\* the numeric outcomes in the four tier columns of a table entry
NumericOutcomes(entry) == {entry[c].n : c \in {k \in TierColumns : entry[k].kind = "number"}}

\* the most negative number of a set, 0 for the empty set
MostNegative(S) == IF S = {} THEN 0 ELSE CHOOSE m \in S : \A x \in S : m <= x

\* the entries of naceDeltas that some listed code matches
MatchedNaceEntries ==
  {i \in 1..Len(naceDeltas) :
     \E k \in 1..Len(lookupIn.naceCodes) :
       naceCodeMatches(lookupIn.naceCodes[k], naceDeltas[i].codes)}

\* C29: the numeric industry delta is the most negative numeric outcome in the
\* four tier columns of all entries matched by any listed code, the numeric
\* age delta the most negative numeric outcome in the four tier columns of
\* the matching bracket; "reject" and "manual" are left out and the delta is 0
\* when nothing matches.
C29_WorstNumericDeltas ==
  /\ (lookupPc = "done" /\ lookupIn.fn = "getWorstNumericNaceDelta") =>
       lookupOut.worstNace.delta =
         Num(MostNegative(UNION {NumericOutcomes(naceDeltas[i]) : i \in MatchedNaceEntries}))
  /\ (lookupPc = "done" /\ lookupIn.fn = "getWorstNumericAgeDelta") =>
       lookupOut.worstAge.delta =
         Num(MostNegative(UNION {NumericOutcomes(ageDeltas[i]) : i \in BracketsHolding}))

\* two codes were listed, one matching an entry of sentinels only and one
\* an entry with a negative number, and that number came back
C29_Witness ==
  /\ lookupPc = "done" /\ lookupIn.fn = "getWorstNumericNaceDelta"
  /\ \E i \in MatchedNaceEntries : NumericOutcomes(naceDeltas[i]) = {}
  /\ lookupOut.worstNace.delta.n < 0
(***************************************************************************)
(* Claims on the score calculation as a function of the base score         *)
(* (SpecScore).                                                            *)
(***************************************************************************)
\* the result for the same company with another base score
WithBaseScore(base) == calculateAdjustedScore([scoreIn EXCEPT !.creditRating = base])

\* C30: with postal code, industry codes and company age fixed, a higher base
\* score never gives a worse finalTier: base1 <= base2 implies
\* finalTier(base1) <= finalTier(base2).
C30_FinalTierMonotone ==
  scorePc = "done" =>
    \A base \in BaseScores :
      base <= scoreIn.creditRating => WithBaseScore(base).finalTier <= scoreOut.finalTier
=============================================================================
